---------------------------- MODULE Spec2Model ----------------------------
(***************************************************************************)
(* A model of ir-keytable (keytable.c): the protocol catalog, the sysfs    *)
(* protocol negotiation, the keytable store, the kernel keycode            *)
(* programmer and the BPF decoder registry.                                *)
(*                                                                         *)
(* Text is modelled as a sequence of one-character strings, so that the    *)
(* comparisons and the tokenising of the C code work on characters.        *)
(* A protocol mask (enum sysfs_protocols, 32 bits) is modelled as the set  *)
(* of its bit positions: | is \cup, & is \cap, ~0 is 0..31.                *)
(* A 64-bit scancode is modelled as four 16-bit limbs <<w3,w2,w1,w0>>,     *)
(* most significant first.                                                 *)
(***************************************************************************)
EXTENDS Integers, Sequences, FiniteSets, TLC

VARIABLES
    \* --- protocol catalog (parse_sysfs_protocol / write_sysfs_protocols)
    catName,      \* the text handed to parse_sysfs_protocol
    catOrigin,    \* index in protocol_map of the name catName was derived from
    catEdits,     \* number of edits applied to the catalog name so far
    catPc,        \* "input", "parsed", "written", "reparsed"; "off" elsewhere
    catMask,      \* parse_sysfs_protocol(catName, false)
    catOut,       \* names write_sysfs_protocols emits for catMask
    catBack       \* parse_sysfs_protocol of each emitted name

catVars == <<catName, catOrigin, catEdits, catPc, catMask, catOut, catBack>>

VARIABLES
    \* --- the process (keytable.c statics and main's locals)
    pc,                      \* position in main: "off", "args", "main", ...
    nargs,                   \* parse_opt calls made so far
    errno,                   \* the C library's errno: "0" or an error name
    keytable,                \* struct keytable_entry list, head first
    rawtable,                \* struct raw_entry list, head first
    raw_scancode,            \* static int raw_scancode
    ch_proto,                \* static enum sysfs_protocols ch_proto
    bpf_protocol,            \* struct bpf_protocol list, head first
    clear,                   \* static int clear
    readtable,               \* static int readtable
    input_protocol_version,  \* static int input_protocol_version
    write_cnt,               \* main's write_cnt
    rc_dev,                  \* main's struct rc_device
    \* --- the environment
    sysfs,                   \* the rc device's sysfs directory
    ktable,                  \* the kernel's scancode table of the input device
    kver,                    \* the evdev version the kernel reports
    klen,                    \* bytes of a scancode in the kernel's records
    lirc_progs,              \* BPF programs attached to the lirc device
    \* --- observations
    ioctls,                  \* keycode-setting ioctls issued by add_keys
    stored,                  \* the Keytable Store, oldest first, as add_keys found it
    bpf_log,                 \* origins of the BPF requests made, oldest first
    out                      \* (scancode, keycode) lines printed by display_table

runVars == <<pc, nargs, errno, keytable, rawtable, raw_scancode, ch_proto,
             bpf_protocol, clear, readtable, input_protocol_version, write_cnt,
             rc_dev>>
envVars == <<sysfs, ktable, kver, klen, lirc_progs>>
obsVars == <<ioctls, stored, bpf_log, out>>

VARIABLES
    \* --- the auto-load rules and the open files
    cfg,                     \* static struct cfgfile cfg: the rules, in file order
    handles,                 \* the files and devices the process holds open
    matched                  \* positions in cfg of the rules main applied, in order

autoVars == <<cfg, handles, matched>>

vars == <<catVars, runVars, envVars, obsVars, autoVars>>

-----------------------------------------------------------------------------
(* Bounds *)

\* number of edits (case change, separator insert/remove/swap) applied to a name
MaxEdits == 2
\* -w, -k and -p arguments in one run
MaxArgs == 2
\* bindings the Keytable Store holds
MaxKeys == 2
\* pending BPF requests
MaxBpf == 3
\* how often -c or -r is counted
MaxFlag == 1

-----------------------------------------------------------------------------
(* Characters *)

NUL == "\\0"

Upper == <<"A","B","C","D","E","F","G","H","I","J","K","L","M",
           "N","O","P","Q","R","S","T","U","V","W","X","Y","Z">>
Lower == <<"a","b","c","d","e","f","g","h","i","j","k","l","m",
           "n","o","p","q","r","s","t","u","v","w","x","y","z">>

UpperSet == {Upper[i] : i \in 1..26}
LowerSet == {Lower[i] : i \in 1..26}
LowerOf == [c \in UpperSet |-> Lower[CHOOSE i \in 1..26 : Upper[i] = c]]
UpperOf == [c \in LowerSet |-> Upper[CHOOSE i \in 1..26 : Lower[i] = c]]

tolower(c) == IF c \in UpperSet THEN LowerOf[c] ELSE c

toupper(c) == IF c \in LowerSet THEN UpperOf[c] ELSE c

IsSep(c) == c = "-" \/ c = "_"

\* *(s + i - 1) for a NUL-terminated string s: the terminator sits at Len(s)+1
At(s, i) == IF i <= Len(s) THEN s[i] ELSE NUL

\* strcasecmp(a, b) == 0
strcaseeq(a, b) ==
    /\ Len(a) = Len(b)
    /\ \A i \in 1..Len(a) : tolower(a[i]) = tolower(b[i])

-----------------------------------------------------------------------------
(* enum sysfs_protocols *)

SYSFS_UNKNOWN  == {0}
SYSFS_OTHER    == {1}
SYSFS_LIRC     == {2}
SYSFS_RC5      == {3}
SYSFS_RC5_SZ   == {4}
SYSFS_JVC      == {5}
SYSFS_SONY     == {6}
SYSFS_NEC      == {7}
SYSFS_SANYO    == {8}
SYSFS_MCE_KBD  == {9}
SYSFS_RC6      == {10}
SYSFS_SHARP    == {11}
SYSFS_XMP      == {12}
SYSFS_CEC      == {13}
SYSFS_IMON     == {14}
SYSFS_RCMM     == {15}
SYSFS_XBOX_DVD == {16}
SYSFS_INVALID  == {}

\* ~0 in a 32-bit enum
SYSFS_ALL == 0..31

\* a NULL char pointer
NULLSTR == <<NUL>>

PME(n, s, p) == [name |-> n, sysfs1_name |-> s, sysfs_protocol |-> p]

protocol_map == <<
    PME(<<"u","n","k","n","o","w","n">>, NULLSTR, SYSFS_UNKNOWN),
    PME(<<"o","t","h","e","r">>, NULLSTR, SYSFS_OTHER),
    PME(<<"l","i","r","c">>, NULLSTR, SYSFS_LIRC),
    PME(<<"r","c","-","5">>,
        <<"/","r","c","5","_","d","e","c","o","d","e","r">>, SYSFS_RC5),
    PME(<<"r","c","-","5","x">>, NULLSTR, SYSFS_INVALID),
    PME(<<"r","c","-","5","-","s","z">>, NULLSTR, SYSFS_RC5_SZ),
    PME(<<"j","v","c">>,
        <<"/","j","v","c","_","d","e","c","o","d","e","r">>, SYSFS_JVC),
    PME(<<"s","o","n","y">>,
        <<"/","s","o","n","y","_","d","e","c","o","d","e","r">>, SYSFS_SONY),
    PME(<<"s","o","n","y","1","2">>, NULLSTR, SYSFS_INVALID),
    PME(<<"s","o","n","y","1","5">>, NULLSTR, SYSFS_INVALID),
    PME(<<"s","o","n","y","2","0">>, NULLSTR, SYSFS_INVALID),
    PME(<<"n","e","c">>,
        <<"/","n","e","c","_","d","e","c","o","d","e","r">>, SYSFS_NEC),
    PME(<<"s","a","n","y","o">>, NULLSTR, SYSFS_SANYO),
    PME(<<"m","c","e","_","k","b","d">>, NULLSTR, SYSFS_MCE_KBD),
    PME(<<"r","c","-","6">>,
        <<"/","r","c","6","_","d","e","c","o","d","e","r">>, SYSFS_RC6),
    PME(<<"r","c","-","6","-","0">>, NULLSTR, SYSFS_INVALID),
    PME(<<"r","c","-","6","-","6","a","-","2","0">>, NULLSTR, SYSFS_INVALID),
    PME(<<"r","c","-","6","-","6","a","-","2","4">>, NULLSTR, SYSFS_INVALID),
    PME(<<"r","c","-","6","-","6","a","-","3","2">>, NULLSTR, SYSFS_INVALID),
    PME(<<"r","c","-","6","-","m","c","e">>, NULLSTR, SYSFS_INVALID),
    PME(<<"s","h","a","r","p">>, NULLSTR, SYSFS_SHARP),
    PME(<<"x","m","p">>,
        <<"/","x","m","p","_","d","e","c","o","d","e","r">>, SYSFS_XMP),
    PME(<<"c","e","c">>, NULLSTR, SYSFS_CEC),
    PME(<<"i","m","o","n">>, NULLSTR, SYSFS_IMON),
    PME(<<"r","c","-","m","m">>, NULLSTR, SYSFS_RCMM),
    PME(<<"x","b","o","x","-","d","v","d">>, NULLSTR, SYSFS_XBOX_DVD)
>>

NPme == Len(protocol_map)

-----------------------------------------------------------------------------
(* Protocol catalog: protocol_like, parse_sysfs_protocol,                   *)
(* write_sysfs_protocols                                                    *)

\* The loop of protocol_like with a at index i and b at index j.  At most ONE
\* separator is skipped on each side per compared character, and the loop
\* stops as soon as either side stands on its terminator.
RECURSIVE protocol_like_from(_, _, _, _)
protocol_like_from(a, b, i, j) ==
    IF At(a, i) # NUL /\ At(b, j) # NUL
    THEN LET i2 == IF IsSep(At(a, i)) THEN i + 1 ELSE i
             j2 == IF IsSep(At(b, j)) THEN j + 1 ELSE j
         IN  IF tolower(At(a, i2)) # tolower(At(b, j2))
             THEN FALSE
             ELSE protocol_like_from(a, b, i2 + 1, j2 + 1)
    ELSE At(a, i) = NUL /\ At(b, j) = NUL

\* a variant that only asks b to be used up (return !*b): a may go on
protocol_like_prefix(a, b) ==
    \E n \in 0..Len(a) : protocol_like_from(SubSeq(a, 1, n), b, 1, 1)

protocol_like(a, b) == protocol_like_from(a, b, 1, 1)

\* protocol_like reads past a terminator only when both sides end in a
\* separator at the same step; the catalog names never end in one.
RECURSIVE protocol_like_overreads(_, _, _, _)
protocol_like_overreads(a, b, i, j) ==
    IF i > Len(a) + 1 \/ j > Len(b) + 1 THEN TRUE
    ELSE IF At(a, i) # NUL /\ At(b, j) # NUL
    THEN LET i2 == IF IsSep(At(a, i)) THEN i + 1 ELSE i
             j2 == IF IsSep(At(b, j)) THEN j + 1 ELSE j
         IN  IF tolower(At(a, i2)) # tolower(At(b, j2))
             THEN FALSE
             ELSE protocol_like_overreads(a, b, i2 + 1, j2 + 1)
    ELSE FALSE

\* the for loop of parse_sysfs_protocol from entry k on: first match wins
RECURSIVE parse_sysfs_from(_, _)
parse_sysfs_from(name, k) ==
    IF k > NPme THEN SYSFS_INVALID
    ELSE IF protocol_like(name, protocol_map[k].name)
         THEN protocol_map[k].sysfs_protocol
         ELSE parse_sysfs_from(name, k + 1)

parse_sysfs_protocol(name, all_allowed) ==
    IF name = NULLSTR THEN SYSFS_INVALID
    ELSE IF all_allowed /\ strcaseeq(name, <<"a","l","l">>) THEN SYSFS_ALL
    ELSE parse_sysfs_from(name, 1)

\* the loop of write_sysfs_protocols from entry k on: the names it prints,
\* in catalog order, each printed bit cleared from the working copy
RECURSIVE write_sysfs_from(_, _)
write_sysfs_from(protocols, k) ==
    IF k > NPme THEN <<>>
    ELSE IF protocols \cap protocol_map[k].sysfs_protocol = {}
         THEN write_sysfs_from(protocols, k + 1)
         ELSE <<protocol_map[k].name>> \o
              write_sysfs_from(protocols \ protocol_map[k].sysfs_protocol, k + 1)

\* the names write_sysfs_protocols prints for a mask
write_sysfs_names(protocols) == write_sysfs_from(protocols, 1)

RECURSIVE Flatten(_)
Flatten(ss) == IF ss = <<>> THEN <<>> ELSE Head(ss) \o Flatten(Tail(ss))

\* write_sysfs_protocols(protocols, fp, fmt): the text appended to fp, with
\* fmt = pre "%s" post
write_sysfs_protocols(protocols, pre, post) ==
    LET names == write_sysfs_names(protocols)
    IN  Flatten([i \in 1..Len(names) |-> pre \o names[i] \o post])

-----------------------------------------------------------------------------
(* BPF decoder registry: compare_parameters, add_bpf_protocol               *)

\* A parameter list is a sequence of [name, value], a request is
\* [name, param]; bpf_protocol holds the requests head first.

\* a variant that compares the parameters' names and not their values
compare_parameters_names_only(a, b) ==
    \A i \in 1..Len(a) : \E j \in 1..Len(b) : a[i].name = b[j].name

compare_parameters(a, b) ==
    \A i \in 1..Len(a) :
        \E j \in 1..Len(b) : a[i].name = b[j].name /\ a[i].value = b[j].value

add_bpf_protocol(list, new) ==
    IF \E i \in 1..Len(list) :
          /\ list[i].name = new.name
          /\ compare_parameters(list[i].param, new.param)
          /\ compare_parameters(new.param, list[i].param)
    THEN list
    ELSE <<new>> \o list

-----------------------------------------------------------------------------
(* Keytable store: parse_code, add_keymap                                   *)

\* A 64-bit scancode is <<w3, w2, w1, w0>>, 16-bit limbs, w3 most significant.
Limb == 65536

\* (unsigned long long) of a non-negative int
ScOfInt(n) == <<0, 0, n \div Limb, n % Limb>>

\* A keycode text is described by what the two parsers make of it:
\*   sym    parse_code's result: the value of the key name, or -1
\*   num    strtol's result
\*   rest   strtol stopped before the end of the text (*p != 0)
\*   erange strtol overflowed and set errno to ERANGE
\*   null   strtok found no token at all (only parse_opt can meet this)
KeyTok(sym, num, rest, erange) ==
    [sym |-> sym, num |-> num, rest |-> rest, erange |-> erange, null |-> FALSE]

\* the text of a scancode, by what strtoull makes of it
ScTok(val, erange) == [val |-> val, erange |-> erange, null |-> FALSE]

\* a token strtok did not find
NoKeyTok == [sym |-> -1, num |-> 0, rest |-> FALSE, erange |-> FALSE, null |-> TRUE]
NoScTok == [val |-> <<0, 0, 0, 0>>, erange |-> FALSE, null |-> TRUE]

parse_code(tok) == tok.sym

\* errno after strtol/strtoull: set on overflow, never cleared
errno_after(e, erange) == IF erange THEN "ERANGE" ELSE e

\* add_keymap's keycode resolution (lines 484-494 and 510-520):
\* [ok, value, errno]
resolve_keycode(tok, e) ==
    IF parse_code(tok) # -1
    THEN [ok |-> TRUE, value |-> parse_code(tok), errno |-> e]
    ELSE LET e2 == errno_after(e, tok.erange)
         IN  IF e2 # "0" \/ tok.rest
             THEN [ok |-> FALSE, value |-> tok.num, errno |-> e2]
             ELSE [ok |-> TRUE, value |-> tok.num, errno |-> e2]

\* the protocol part of one map (lines 464-478)
add_keymap_protocol(g, map) ==
    LET protocol == parse_sysfs_protocol(map.protocol, FALSE)
    IN  IF protocol = SYSFS_INVALID
        THEN IF map.protocol # <<"n","o","n","e">>
             THEN [g EXCEPT
                     !.bpf_protocol = add_bpf_protocol(@,
                         [name |-> map.protocol, param |-> map.param]),
                     !.bpf_log = Append(@, [origin |-> "keymap",
                         name |-> map.protocol, param |-> map.param])]
             ELSE g
        ELSE [g EXCEPT !.ch_proto = @ \cup protocol]

\* the scancode entries of one map, from entry k on (lines 480-502)
RECURSIVE add_keymap_scancodes(_, _, _)
add_keymap_scancodes(g, ses, k) ==
    IF k > Len(ses) THEN g
    ELSE LET r == resolve_keycode(ses[k].keycode, g.errno)
         IN  IF ~r.ok
             THEN add_keymap_scancodes([g EXCEPT !.errno = r.errno], ses, k + 1)
             ELSE add_keymap_scancodes(
                    [g EXCEPT !.errno = r.errno,
                              !.keytable = <<[scancode |-> ses[k].scancode,
                                              keycode |-> r.value]>> \o @],
                    ses, k + 1)

\* the raw entries of one map with the counter advanced for skipped entries too
RECURSIVE add_keymap_raws_counts_skipped(_, _, _)
add_keymap_raws_counts_skipped(g, res, k) ==
    IF k > Len(res) THEN g
    ELSE LET r == resolve_keycode(res[k].keycode, g.errno)
         IN  IF ~r.ok
             THEN add_keymap_raws_counts_skipped(
                    [g EXCEPT !.errno = r.errno, !.raw_scancode = @ + 1], res, k + 1)
             ELSE add_keymap_raws_counts_skipped(
                    [g EXCEPT !.errno = r.errno,
                              !.keytable = <<[scancode |-> ScOfInt(g.raw_scancode),
                                              keycode |-> r.value]>> \o @,
                              !.rawtable = <<[scancode |-> g.raw_scancode,
                                              keycode |-> res[k].keycode]>> \o @,
                              !.raw_scancode = @ + 1],
                    res, k + 1)

\* the raw entries of one map, from entry k on (lines 504-532)
RECURSIVE add_keymap_raws(_, _, _)
add_keymap_raws(g, res, k) ==
    IF k > Len(res) THEN g
    ELSE LET r == resolve_keycode(res[k].keycode, g.errno)
         IN  IF ~r.ok
             THEN add_keymap_raws([g EXCEPT !.errno = r.errno], res, k + 1)
             ELSE add_keymap_raws(
                    [g EXCEPT !.errno = r.errno,
                              !.keytable = <<[scancode |-> ScOfInt(g.raw_scancode),
                                              keycode |-> r.value]>> \o @,
                              !.rawtable = <<[scancode |-> g.raw_scancode,
                                              keycode |-> res[k].keycode]>> \o @,
                              !.raw_scancode = @ + 1],
                    res, k + 1)

\* add_keymap over the list of maps, from map k on
RECURSIVE add_keymap(_, _, _)
add_keymap(g, maps, k) ==
    IF k > Len(maps) THEN g
    ELSE add_keymap(
            add_keymap_raws(
                add_keymap_scancodes(add_keymap_protocol(g, maps[k]),
                                     maps[k].scancode, 1),
                maps[k].raw, 1),
            maps, k + 1)

-----------------------------------------------------------------------------
(* parse_opt: the cases that fill the store, the mask and the registry      *)

\* the statics add_keymap and parse_opt work on, as one record
G == [keytable |-> keytable, rawtable |-> rawtable,
      raw_scancode |-> raw_scancode, ch_proto |-> ch_proto,
      bpf_protocol |-> bpf_protocol, errno |-> errno, bpf_log |-> bpf_log]

SetG(g) ==
    /\ keytable' = g.keytable
    /\ rawtable' = g.rawtable
    /\ raw_scancode' = g.raw_scancode
    /\ ch_proto' = g.ch_proto
    /\ bpf_protocol' = g.bpf_protocol
    /\ errno' = g.errno
    /\ bpf_log' = g.bpf_log

\* case 'k' (lines 664-715), from pair k on.  A pair is
\* [sc |-> a scancode text or NoScTok, key |-> a keycode text or NoKeyTok].
\* Result: [g, err]; err means argp_error was called, which ends the process.
RECURSIVE parse_opt_k(_, _, _)
parse_opt_k(g, pairs, k) ==
    IF k > Len(pairs)
    THEN IF k = 1 THEN [g |-> g, err |-> TRUE]      \* "Missing scancode"
         ELSE [g |-> g, err |-> FALSE]
    ELSE IF pairs[k].sc.null THEN [g |-> g, err |-> TRUE]
    ELSE LET e1 == errno_after(g.errno, pairs[k].sc.erange)
         IN  IF e1 # "0"                             \* "Invalid scancode"
             THEN [g |-> [g EXCEPT !.errno = e1], err |-> TRUE]
             ELSE IF pairs[k].key.null            \* "Missing keycode"
             THEN [g |-> [g EXCEPT !.errno = e1], err |-> TRUE]
             ELSE LET tok == pairs[k].key
                      e2  == IF parse_code(tok) = -1
                             THEN errno_after(e1, tok.erange) ELSE e1
                      key == IF parse_code(tok) = -1 THEN tok.num
                             ELSE parse_code(tok)
                  IN  IF e2 # "0"                    \* "Unknown keycode"
                      THEN [g |-> [g EXCEPT !.errno = e2], err |-> TRUE]
                      ELSE parse_opt_k(
                             [g EXCEPT !.errno = e2,
                                       !.keytable = <<[scancode |-> pairs[k].sc.val,
                                                       keycode |-> key]>> \o @],
                             pairs, k + 1)

\* case 'p' where a name the catalog does not know also sets the rc-6 bit
RECURSIVE parse_opt_p_unknown_sets_bit(_, _, _)
parse_opt_p_unknown_sets_bit(g, toks, k) ==
    IF k > Len(toks) THEN g
    ELSE LET protocol == parse_sysfs_protocol(toks[k], TRUE)
         IN  IF protocol = SYSFS_INVALID
             THEN parse_opt_p_unknown_sets_bit(
                    [g EXCEPT
                       !.ch_proto = @ \cup SYSFS_RC6,
                       !.bpf_protocol = <<[name |-> toks[k], param |-> <<>>]>> \o @,
                       !.bpf_log = Append(@, [origin |-> "opt_p",
                                              name |-> toks[k], param |-> <<>>])],
                    toks, k + 1)
             ELSE parse_opt_p_unknown_sets_bit(
                    [g EXCEPT !.ch_proto = @ \cup protocol], toks, k + 1)

\* case 'p' (lines 716-734), from token k on: a name the catalog does not
\* know is pushed on bpf_protocol directly
RECURSIVE parse_opt_p(_, _, _)
parse_opt_p(g, toks, k) ==
    IF k > Len(toks) THEN g
    ELSE LET protocol == parse_sysfs_protocol(toks[k], TRUE)
         IN  IF protocol = SYSFS_INVALID
             THEN parse_opt_p(
                    [g EXCEPT
                       !.bpf_protocol = <<[name |-> toks[k], param |-> <<>>]>> \o @,
                       !.bpf_log = Append(@, [origin |-> "opt_p",
                                              name |-> toks[k], param |-> <<>>])],
                    toks, k + 1)
             ELSE parse_opt_p([g EXCEPT !.ch_proto = @ \cup protocol], toks, k + 1)

-----------------------------------------------------------------------------
(* The kernel's side of the evdev keycode ioctls (rc-core's scancode table) *)

KEY_RESERVED == 0
\* the largest keycode the input layer accepts (KEY_MAX, 0x2ff)
KEY_MAX == 767
\* EVIOCGVERSION answers from which on the _V2 ioctls exist (0x10001)
EV_VERSION_V2 == 65537

\* a table is a set of [scancode, keycode] with one entry per scancode
ScLess(a, b) ==
    \E i \in 1..4 : a[i] < b[i] /\ \A j \in 1..(i - 1) : a[j] = b[j]

KMin(t) == CHOOSE e \in t : \A f \in t : f = e \/ ScLess(e.scancode, f.scancode)

\* the table in index order: rc-core keeps it sorted by scancode
RECURSIVE KSorted(_)
KSorted(t) == IF t = {} THEN <<>> ELSE <<KMin(t)>> \o KSorted(t \ {KMin(t)})

\* setting KEY_RESERVED removes the entry, any other keycode replaces it
KUpdate(t, sc, kc) ==
    IF kc = KEY_RESERVED
    THEN {e \in t : e.scancode # sc}
    ELSE {e \in t : e.scancode # sc} \cup {[scancode |-> sc, keycode |-> kc]}

\* ioctl(fd, EVIOCSKEYCODE, codes): [ok, t]
K_EVIOCSKEYCODE(t, sc, kc) ==
    IF kc > KEY_MAX THEN [ok |-> FALSE, t |-> t]
    ELSE [ok |-> TRUE, t |-> KUpdate(t, sc, kc)]

\* ioctl(fd, EVIOCSKEYCODE_V2, &entry) with flags = 0: by scancode of len bytes
K_EVIOCSKEYCODE_V2(t, ver, kl, len, sc, kc) ==
    IF ver < EV_VERSION_V2 \/ len > kl \/ kc > KEY_MAX
    THEN [ok |-> FALSE, t |-> t]
    ELSE [ok |-> TRUE, t |-> KUpdate(t, sc, kc)]

\* ioctl(fd, EVIOCSKEYCODE_V2, &entry) with flags = KEYMAP_BY_INDEX
K_EVIOCSKEYCODE_V2_INDEX(t, ver, index, kc) ==
    IF ver < EV_VERSION_V2 \/ index >= Cardinality(t) \/ kc > KEY_MAX
    THEN [ok |-> FALSE, t |-> t]
    ELSE [ok |-> TRUE, t |-> KUpdate(t, KSorted(t)[index + 1].scancode, kc)]

\* ioctl(fd, EVIOCGKEYCODE, codes): the keycode, KEY_RESERVED when unmapped
K_EVIOCGKEYCODE(t, sc) ==
    IF \E e \in t : e.scancode = sc
    THEN (CHOOSE e \in t : e.scancode = sc).keycode
    ELSE KEY_RESERVED

\* ioctl(fd, EVIOCGKEYCODE_V2, &entry) with flags = KEYMAP_BY_INDEX:
\* [ok, len, scancode, keycode]
K_EVIOCGKEYCODE_V2_INDEX(t, ver, kl, index) ==
    IF ver < EV_VERSION_V2 \/ index >= Cardinality(t)
    THEN [ok |-> FALSE, len |-> 0, scancode |-> <<0, 0, 0, 0>>, keycode |-> 0]
    ELSE [ok |-> TRUE, len |-> kl,
          scancode |-> KSorted(t)[index + 1].scancode,
          keycode |-> KSorted(t)[index + 1].keycode]

-----------------------------------------------------------------------------
(* Kernel keycode programmer: clear_table, add_keys, display_table          *)

\* (unsigned) of an unsigned long long: the low 32 bits
Low32(sc) == <<0, 0, sc[3], sc[4]>>

\* a scancode the legacy loops (j << 8) | i, 0 <= i, j < 256, visit
In16(sc) == sc[1] = 0 /\ sc[2] = 0 /\ sc[3] = 0

\* a variant whose indexed branch deletes one entry and stops
clear_table_single_delete(t, version, ver) ==
    IF version < EV_VERSION_V2
    THEN {e \in t : ~(e.scancode[1] = 0 /\ e.scancode[2] = 0 /\ e.scancode[3] = 0)}
    ELSE K_EVIOCSKEYCODE_V2_INDEX(t, ver, 0, KEY_RESERVED).t

\* the do-while of clear_table: delete index 0 until the ioctl fails
RECURSIVE clear_table_v2(_, _)
clear_table_v2(t, ver) ==
    LET r == K_EVIOCSKEYCODE_V2_INDEX(t, ver, 0, KEY_RESERVED)
    IN  IF r.ok THEN clear_table_v2(r.t, ver) ELSE t

\* a variant whose legacy loops stop after the row j = 0
clear_table_first_row(t, version, ver) ==
    IF version < EV_VERSION_V2
    THEN {e \in t : ~(In16(e.scancode) /\ e.scancode[4] < 256)}
    ELSE clear_table_v2(t, ver)

\* clear_table: the table it leaves.  The legacy loops set each of the 65536
\* scancodes (j << 8) | i to KEY_RESERVED and ignore the result.
clear_table(t, version, ver) ==
    IF version < EV_VERSION_V2
    THEN {e \in t : ~In16(e.scancode)}
    ELSE clear_table_v2(t, ver)

\* the ioctl add_keys issues for one entry: the request and the kernel's answer
add_keys_ioctl(t, ke, ver, kl) ==
    IF Low32(ke.scancode) # ke.scancode
    THEN LET r == K_EVIOCSKEYCODE_V2(t, ver, kl, 8, ke.scancode, ke.keycode)
         IN  [req |-> "EVIOCSKEYCODE_V2", len |-> 8, scancode |-> ke.scancode,
              keycode |-> ke.keycode, ok |-> r.ok, t |-> r.t]
    ELSE LET r == K_EVIOCSKEYCODE(t, Low32(ke.scancode), ke.keycode)
         IN  [req |-> "EVIOCSKEYCODE", len |-> 4, scancode |-> Low32(ke.scancode),
              keycode |-> ke.keycode, ok |-> r.ok, t |-> r.t]

\* add_keys leaving its loop at the first ioctl that fails
RECURSIVE add_keys_from_stops_on_error(_, _, _, _, _, _, _)
add_keys_from_stops_on_error(list, k, t, log, cnt, ver, kl) ==
    IF k > Len(list) THEN [t |-> t, log |-> log, cnt |-> cnt]
    ELSE LET r == add_keys_ioctl(t, list[k], ver, kl)
             l == Append(log, [req |-> r.req, len |-> r.len, scancode |-> r.scancode,
                               keycode |-> r.keycode, ok |-> r.ok])
         IN  IF ~r.ok THEN [t |-> r.t, log |-> l, cnt |-> cnt + 1]
             ELSE add_keys_from_stops_on_error(list, k + 1, r.t, l, cnt + 1, ver, kl)

\* the for loop of add_keys from entry k of the list on:
\* [t, log, cnt], the table, the ioctls issued and write_cnt
RECURSIVE add_keys_from(_, _, _, _, _, _, _)
add_keys_from(list, k, t, log, cnt, ver, kl) ==
    IF k > Len(list) THEN [t |-> t, log |-> log, cnt |-> cnt]
    ELSE LET r == add_keys_ioctl(t, list[k], ver, kl)
         IN  add_keys_from(list, k + 1, r.t,
                 Append(log, [req |-> r.req, len |-> r.len, scancode |-> r.scancode,
                              keycode |-> r.keycode, ok |-> r.ok]),
                 cnt + 1, ver, kl)

add_keys(list, t, ver, kl) == add_keys_from(list, 1, t, <<>>, 0, ver, kl)

\* display_table_v1: the lines printed, scancodes 0 .. 0xffff in rising order
display_table_v1(t) ==
    KSorted({e \in t : In16(e.scancode) /\
                        K_EVIOCGKEYCODE(t, e.scancode) # KEY_RESERVED})

\* display_table_v2 from index i on: [out, hang].  A record whose length is
\* neither 4 nor 8 takes the continue, which re-enters the loop with i
\* unchanged: the same ioctl is repeated for ever.
RECURSIVE display_table_v2(_, _, _, _, _)
display_table_v2(t, ver, kl, i, acc) ==
    LET r == K_EVIOCGKEYCODE_V2_INDEX(t, ver, kl, i)
    IN  IF ~r.ok THEN [out |-> acc, hang |-> FALSE]
        ELSE IF r.len = 4
        THEN display_table_v2(t, ver, kl, i + 1,
                 Append(acc, [scancode |-> Low32(r.scancode), keycode |-> r.keycode]))
        ELSE IF r.len = 8
        THEN display_table_v2(t, ver, kl, i + 1,
                 Append(acc, [scancode |-> r.scancode, keycode |-> r.keycode]))
        ELSE [out |-> acc, hang |-> TRUE]

display_table(t, version, ver, kl) ==
    IF version < EV_VERSION_V2
    THEN [out |-> display_table_v1(t), hang |-> FALSE]
    ELSE display_table_v2(t, ver, kl, 0, <<>>)

-----------------------------------------------------------------------------
(* Text helpers: strstr, fgets, strtok, atoi                                *)

\* strstr(hay, needle) != NULL
Contains(hay, needle) ==
    \E i \in 1..(Len(hay) - Len(needle) + 1) :
        SubSeq(hay, i, i + Len(needle) - 1) = needle

\* fgets: the first line with its newline; <<>> stands for a NULL result
\* (an empty file)
RECURSIVE fgets_from(_, _)
fgets_from(text, i) ==
    IF i > Len(text) THEN text
    ELSE IF text[i] = "\n" THEN SubSeq(text, 1, i)
    ELSE fgets_from(text, i + 1)

fgets(text) == fgets_from(text, 1)

\* the successive results of strtok(buf, delims), strtok(NULL, delims), ...
RECURSIVE strtok_from(_, _, _, _)
strtok_from(buf, delims, i, cur) ==
    IF i > Len(buf)
    THEN IF cur = <<>> THEN <<>> ELSE <<cur>>
    ELSE IF buf[i] \in delims
         THEN IF cur = <<>> THEN strtok_from(buf, delims, i + 1, <<>>)
              ELSE <<cur>> \o strtok_from(buf, delims, i + 1, <<>>)
         ELSE strtok_from(buf, delims, i + 1, Append(cur, buf[i]))

strtok(buf, delims) == strtok_from(buf, delims, 1, <<>>)

Digits == <<"0","1","2","3","4","5","6","7","8","9">>
DigitSet == {Digits[i] : i \in 1..10}
DigitVal == [c \in DigitSet |-> (CHOOSE i \in 1..10 : Digits[i] = c) - 1]

\* the digits of atoi, from position i on
RECURSIVE atoi_from(_, _, _)
atoi_from(p, i, acc) ==
    IF i > Len(p) \/ p[i] \notin DigitSet THEN acc
    ELSE atoi_from(p, i + 1, acc * 10 + DigitVal[p[i]])

atoi(p) ==
    IF p # <<>> /\ p[1] = "-" THEN 0 - atoi_from(p, 2, 0)
    ELSE IF p # <<>> /\ p[1] = "+" THEN atoi_from(p, 2, 0)
    ELSE atoi_from(p, 1, 0)

\* every line fgets hands out until it returns NULL
RECURSIVE fgets_lines(_)
fgets_lines(text) ==
    IF text = <<>> THEN <<>>
    ELSE <<fgets(text)>>
         \o fgets_lines(SubSeq(text, Len(fgets(text)) + 1, Len(text)))

\* the first position from i on whose character is (want = TRUE) or is not
\* (want = FALSE) in set; Len(buf) + 1 when there is none
RECURSIVE span(_, _, _, _)
span(buf, set, i, want) ==
    IF i > Len(buf) \/ (buf[i] \in set) = want THEN i
    ELSE span(buf, set, i + 1, want)

\* one strtok call whose scan starts at position i of the buffer:
\* [null, tok, next], next being where the following call starts
strtok_at(buf, delims, i) ==
    LET s == span(buf, delims, i, FALSE)
        e == span(buf, delims, s, TRUE)
    IN  IF s > Len(buf)
        THEN [null |-> TRUE, tok |-> <<>>, next |-> s]
        ELSE [null |-> FALSE, tok |-> SubSeq(buf, s, e - 1),
              next |-> IF e > Len(buf) THEN e ELSE e + 1]

-----------------------------------------------------------------------------
(* Protocol negotiator: the sysfs reads of get_attribs                      *)

\* The rc device's directory is [nodes, writable]: nodes lists the entries
\* in readdir order, each [name, text] with text the content of the file
\* (for a decoder directory, of its "enabled" file) or NoFile; writable
\* says whether "protocols" has a write permission bit.
NoFile == <<"ENOENT">>

VERSION_1 == "VERSION_1"
VERSION_2 == "VERSION_2"
UNKNOWN_TYPE == "UNKNOWN_TYPE"
SOFTWARE_DECODER == "SOFTWARE_DECODER"
HARDWARE_DECODER == "HARDWARE_DECODER"

sysfs_name == <<"/","s","y","s","/","c","l","a","s","s","/","r","c","/","r","c","0","/">>

\* v1_get_hw_protocols: the mask of the first line's tokens
RECURSIVE hw_tokens_mask(_, _)
hw_tokens_mask(toks, k) ==
    IF k > Len(toks) THEN {}
    ELSE LET protocol == parse_sysfs_protocol(toks[k], FALSE)
         IN  (IF protocol = SYSFS_INVALID THEN SYSFS_OTHER ELSE protocol)
             \cup hw_tokens_mask(toks, k + 1)

\* a variant that stops after the first token
v1_get_hw_protocols_first_token(text) ==
    IF text = NoFile THEN {}
    ELSE IF fgets(text) = <<>> THEN {}
    ELSE hw_tokens_mask(SubSeq(strtok(fgets(text), {" ", "\n"}), 1, 1), 1)

v1_get_hw_protocols(text) ==
    IF text = NoFile THEN {}
    ELSE IF fgets(text) = <<>> THEN {}
    ELSE hw_tokens_mask(strtok(fgets(text), {" ", "\n"}), 1)

\* v1_get_sw_enabled_protocol: 1 iff the enabled file's first token is 1
v1_get_sw_enabled_protocol(text) ==
    IF text = NoFile THEN 0
    ELSE IF fgets(text) = <<>> THEN 0
    ELSE IF strtok(fgets(text), {" ", "\n"}) = <<>> THEN 0
    ELSE IF atoi(strtok(fgets(text), {" ", "\n"})[1]) = 1 THEN 1
    ELSE 0

\* the token loop of v2_get_protocols from token k on: a token that starts
\* with '[' loses its first and its last character and counts as enabled
RECURSIVE v2_tokens(_, _, _)
v2_tokens(dev, toks, k) ==
    IF k > Len(toks) THEN dev
    ELSE LET enabled == toks[k][1] = "["
             p == IF enabled
                  THEN SubSeq(toks[k], 2, Len(toks[k]) - 1)
                  ELSE toks[k]
             parsed == parse_sysfs_protocol(p, FALSE)
             protocol == IF parsed = SYSFS_INVALID THEN SYSFS_OTHER ELSE parsed
         IN  v2_tokens([dev EXCEPT !.supported = @ \cup protocol,
                                   !.current = IF enabled THEN @ \cup protocol
                                               ELSE @],
                       toks, k + 1)

\* a variant that skips the '[' of an enabled token but keeps its ']'
RECURSIVE v2_tokens_keeps_bracket(_, _, _)
v2_tokens_keeps_bracket(dev, toks, k) ==
    IF k > Len(toks) THEN dev
    ELSE LET enabled == toks[k][1] = "["
             p == IF enabled THEN Tail(toks[k]) ELSE toks[k]
             parsed == parse_sysfs_protocol(p, FALSE)
             protocol == IF parsed = SYSFS_INVALID THEN SYSFS_OTHER ELSE parsed
         IN  v2_tokens_keeps_bracket(
                [dev EXCEPT !.supported = @ \cup protocol,
                            !.current = IF enabled THEN @ \cup protocol ELSE @],
                toks, k + 1)

v2_get_protocols_keeps_bracket(dev, text) ==
    IF text = NoFile THEN dev
    ELSE IF fgets(text) = <<>> THEN dev
    ELSE v2_tokens_keeps_bracket(dev, strtok(fgets(text), {" ", "\n"}), 1)

v2_get_protocols(dev, text) ==
    IF text = NoFile THEN dev
    ELSE IF fgets(text) = <<>> THEN dev
    ELSE v2_tokens(dev, strtok(fgets(text), {" ", "\n"}), 1)

\* the catalog loop of get_attribs for a node that is none of the protocol
\* files (lines 1394-1406), from entry k on
RECURSIVE get_attribs_sw(_, _, _)
get_attribs_sw(dev, node, k) ==
    IF k > NPme THEN dev
    ELSE IF protocol_map[k].sysfs1_name = NULLSTR
    THEN get_attribs_sw(dev, node, k + 1)
    ELSE IF Contains(sysfs_name \o node.name, protocol_map[k].sysfs1_name)
    THEN LET d1 == [dev EXCEPT !.supported = @ \cup protocol_map[k].sysfs_protocol]
         IN  IF v1_get_sw_enabled_protocol(node.text) # 0
             \* line 1403 ors the bit into supported again, not into current
             THEN [d1 EXCEPT !.supported = @ \cup protocol_map[k].sysfs_protocol]
             ELSE d1
    ELSE get_attribs_sw(dev, node, k + 1)

\* one entry of the directory (lines 1379-1408)
get_attribs_node(dev, node) ==
    LET path == sysfs_name \o node.name
    IN  IF Contains(path, <<"/","p","r","o","t","o","c","o","l","s">>)
        THEN v2_get_protocols([dev EXCEPT !.version = VERSION_2,
                                          !.type = UNKNOWN_TYPE], node.text)
        ELSE IF Contains(path, <<"/","p","r","o","t","o","c","o","l">>)
        THEN [dev EXCEPT !.version = VERSION_1, !.type = HARDWARE_DECODER,
                         !.current = v1_get_hw_protocols(node.text)]
        ELSE IF Contains(path, <<"/","s","u","p","p","o","r","t","e","d","_",
                                 "p","r","o","t","o","c","o","l","s">>)
        THEN [dev EXCEPT !.version = VERSION_1,
                         !.supported = v1_get_hw_protocols(node.text)]
        ELSE get_attribs_sw(dev, node, 1)

RECURSIVE get_attribs_nodes(_, _, _)
get_attribs_nodes(dev, nodes, k) ==
    IF k > Len(nodes) THEN dev
    ELSE get_attribs_nodes(get_attribs_node(dev, nodes[k]), nodes, k + 1)

\* read_sysfs_uevents over the lines of the file, from line k on (lines
\* 928-968): [null, list]; null stands for the NULL result, list holds the
\* (key, value) entries in file order
RECURSIVE read_sysfs_uevents_from(_, _, _)
read_sysfs_uevents_from(lines, k, acc) ==
    IF k > Len(lines) THEN [null |-> FALSE, list |-> acc]
    ELSE LET p == strtok_at(lines[k], {"="}, 1)
         IN  IF p.null THEN read_sysfs_uevents_from(lines, k + 1, acc)
             ELSE LET v == strtok_at(lines[k], {"\n"}, p.next)
                  IN  IF v.null               \* "Error on uevent information"
                      THEN [null |-> TRUE, list |-> <<>>]
                      ELSE read_sysfs_uevents_from(lines, k + 1,
                              Append(acc, [key |-> p.tok, value |-> v.tok]))

\* read_sysfs_uevents on the text of a uevent file, NoFile when fopen fails
read_sysfs_uevents(text) ==
    IF text = NoFile THEN [null |-> TRUE, list |-> <<>>]
    ELSE read_sysfs_uevents_from(fgets_lines(text), 1, <<>>)

\* the value get_attribs keeps for a key of the device's uevent file: that
\* of the last entry with the key, NULLSTR (a null pointer) without one
uevent_value(list, key) ==
    LET at == {i \in 1..Len(list) : list[i].key = key}
    IN  IF at = {} THEN NULLSTR
        ELSE list[CHOOSE i \in at : \A j \in at : j <= i].value

N_DRV_NAME == <<"D","R","V","_","N","A","M","E">>
N_NAME == <<"N","A","M","E">>

\* struct rc_device after memset (line 1281)
rc_dev_zero ==
    [lirc_name |-> FALSE, version |-> VERSION_1, type |-> UNKNOWN_TYPE,
     supported |-> {}, current |-> {},
     drv_name |-> NULLSTR, keytable_name |-> NULLSTR]

\* get_attribs on a directory whose input and event nodes are in order:
\* the lirc node, the names of the device's own uevent file, then the
\* decoder nodes (lines 1281-1301, 1350-1368, 1373-1410)
get_attribs(fs) ==
    LET uevent == read_sysfs_uevents(fs.uevent).list
    IN  get_attribs_nodes(
            [rc_dev_zero EXCEPT !.lirc_name = fs.lirc,
                                !.drv_name = uevent_value(uevent, N_DRV_NAME),
                                !.keytable_name = uevent_value(uevent, N_NAME),
                                !.type = SOFTWARE_DECODER],
            fs.nodes, 1)

\* get_attribs's return value: EINVAL when the device's uevent file cannot
\* be read (lines 1350-1352), else 0
get_attribs_rc(fs) ==
    IF read_sysfs_uevents(fs.uevent).null THEN "EINVAL" ELSE "0"

-----------------------------------------------------------------------------
(* Protocol negotiator: the sysfs writes of set_proto                       *)

\* the directory has an entry of this name
HasNode(fs, name) == \E i \in 1..Len(fs.nodes) : fs.nodes[i].name = name

NodeText(fs, name) ==
    fs.nodes[CHOOSE i \in 1..Len(fs.nodes) : fs.nodes[i].name = name].text

\* a completed write: the path under the device directory and the text
Written(fs, path, text) ==
    [fs EXCEPT !.writes = Append(@, [path |-> path, text |-> text])]

N_protocols == <<"p","r","o","t","o","c","o","l","s">>
N_protocol == <<"p","r","o","t","o","c","o","l">>

\* v2_set_protocols without the stat() test of the write permission bits
v2_set_protocols_unchecked(dev, fs) ==
    IF ~HasNode(fs, N_protocols)
    THEN [failed |-> 1, fs |-> fs]
    ELSE [failed |-> 0,
          fs |-> Written(fs, N_protocols,
                    <<"n","o","n","e","\n">> \o
                    write_sysfs_protocols(dev.current, <<"+">>, <<"\n">>))]

\* v2_set_protocols: [failed, fs]; failed counts the non-zero return
v2_set_protocols(dev, fs) ==
    IF HasNode(fs, N_protocols) /\ ~fs.writable
    THEN [failed |-> 1, fs |-> fs]                      \* EINVAL, nothing written
    ELSE IF ~HasNode(fs, N_protocols)
    THEN [failed |-> 1, fs |-> fs]                      \* fopen fails
    ELSE [failed |-> 0,
          fs |-> Written(fs, N_protocols,
                    <<"n","o","n","e","\n">> \o
                    write_sysfs_protocols(dev.current, <<"+">>, <<"\n">>))]

\* v1_set_hw_protocols
v1_set_hw_protocols(dev, fs) ==
    IF ~HasNode(fs, N_protocol)
    THEN [failed |-> 1, fs |-> fs]
    ELSE [failed |-> 0,
          fs |-> Written(fs, N_protocol,
                    write_sysfs_protocols(dev.current, <<>>, <<" ">>) \o <<"\n">>)]

\* v1_set_sw_enabled_protocol; dirname is the catalog's fragment "/x_decoder"
v1_set_sw_enabled_protocol(fs, dirname, enabled) ==
    LET node == Tail(dirname)
    IN  IF ~HasNode(fs, node) \/ NodeText(fs, node) = NoFile
        THEN [failed |-> 1, fs |-> fs]
        ELSE [failed |-> 0,
              fs |-> Written(fs, node \o <<"/","e","n","a","b","l","e","d">>,
                             IF enabled THEN <<"1">> ELSE <<"0">>)]

\* the software-decoder loop writing only to the decoders being enabled
RECURSIVE set_proto_sw_enable_only(_, _, _, _)
set_proto_sw_enable_only(dev, fs, k, failed) ==
    IF k > NPme THEN [failed |-> failed, fs |-> fs]
    ELSE IF protocol_map[k].sysfs1_name = NULLSTR
            \/ dev.current \cap protocol_map[k].sysfs_protocol = {}
    THEN set_proto_sw_enable_only(dev, fs, k + 1, failed)
    ELSE LET r == v1_set_sw_enabled_protocol(fs, protocol_map[k].sysfs1_name, TRUE)
         IN  set_proto_sw_enable_only(dev, r.fs, k + 1, failed + r.failed)

\* the software-decoder loop of set_proto from catalog entry k on
RECURSIVE set_proto_sw(_, _, _, _)
set_proto_sw(dev, fs, k, failed) ==
    IF k > NPme THEN [failed |-> failed, fs |-> fs]
    ELSE IF protocol_map[k].sysfs1_name = NULLSTR
            \/ dev.supported \cap protocol_map[k].sysfs_protocol = {}
    THEN set_proto_sw(dev, fs, k + 1, failed)
    ELSE LET r == v1_set_sw_enabled_protocol(fs, protocol_map[k].sysfs1_name,
                      dev.current \cap protocol_map[k].sysfs_protocol # {})
         IN  set_proto_sw(dev, r.fs, k + 1, failed + r.failed)

\* set_proto with the target narrowed to the supported mask for every version
set_proto_narrows_always(dev, fs) ==
    LET d == [dev EXCEPT !.current = @ \cap dev.supported]
    IN  IF d.version = VERSION_2
        THEN LET r == v2_set_protocols(d, fs)
             IN  [failed |-> r.failed, dev |-> d, fs |-> r.fs]
        ELSE IF d.type = SOFTWARE_DECODER
        THEN LET r == set_proto_sw(d, fs, 1, 0)
             IN  [failed |-> r.failed, dev |-> d, fs |-> r.fs]
        ELSE LET r == v1_set_hw_protocols(d, fs)
             IN  [failed |-> r.failed, dev |-> d, fs |-> r.fs]

\* set_proto: [failed, dev, fs]
set_proto(dev, fs) ==
    IF dev.version = VERSION_2
    THEN LET r == v2_set_protocols(dev, fs)
         IN  [failed |-> r.failed, dev |-> dev, fs |-> r.fs]
    ELSE LET d == [dev EXCEPT !.current = @ \cap dev.supported]
         IN  IF d.type = SOFTWARE_DECODER
             THEN LET r == set_proto_sw(d, fs, 1, 0)
                  IN  [failed |-> r.failed, dev |-> d, fs |-> r.fs]
             ELSE LET r == v1_set_hw_protocols(d, fs)
                  IN  [failed |-> r.failed, dev |-> d, fs |-> r.fs]

N_xbox_dvd == <<"x","b","o","x","-","d","v","d">>

\* load_bpf_for_unsupported that does not look at what the device supports
RECURSIVE load_bpf_for_unsupported_any_device(_, _, _, _)
load_bpf_for_unsupported_any_device(g, protocols, supported, k) ==
    IF k > NPme THEN [protocols |-> protocols, g |-> g]
    ELSE IF protocol_map[k].sysfs_protocol # SYSFS_XBOX_DVD
            \/ protocols \cap protocol_map[k].sysfs_protocol = {}
    THEN load_bpf_for_unsupported_any_device(g, protocols, supported, k + 1)
    ELSE load_bpf_for_unsupported_any_device(
            [g EXCEPT
               !.bpf_protocol = add_bpf_protocol(@,
                   [name |-> protocol_map[k].name, param |-> <<>>]),
               !.bpf_log = Append(@, [origin |-> "fallback",
                   name |-> protocol_map[k].name, param |-> <<>>])],
            protocols \ protocol_map[k].sysfs_protocol, supported, k + 1)

\* load_bpf_for_unsupported from catalog entry k on: [protocols, g]
RECURSIVE load_bpf_for_unsupported(_, _, _, _)
load_bpf_for_unsupported(g, protocols, supported, k) ==
    IF k > NPme THEN [protocols |-> protocols, g |-> g]
    ELSE IF protocol_map[k].sysfs_protocol # SYSFS_XBOX_DVD
    THEN load_bpf_for_unsupported(g, protocols, supported, k + 1)
    ELSE IF protocols \cap protocol_map[k].sysfs_protocol = {}
            \/ supported \cap protocol_map[k].sysfs_protocol # {}
    THEN load_bpf_for_unsupported(g, protocols, supported, k + 1)
    ELSE load_bpf_for_unsupported(
            [g EXCEPT
               !.bpf_protocol = add_bpf_protocol(@,
                   [name |-> protocol_map[k].name, param |-> <<>>]),
               !.bpf_log = Append(@, [origin |-> "fallback",
                   name |-> protocol_map[k].name, param |-> <<>>])],
            protocols \ protocol_map[k].sysfs_protocol, supported, k + 1)

\* clear_bpf on a raw receiver: bpf_prog_query fills at most MAX_PROGS ids
\* and fails when more are attached; on success each program is detached
MAX_PROGS == 64

\* clear_bpf that detaches only the program attached last
clear_bpf_last_only(progs) ==
    IF progs = <<>> THEN <<>> ELSE SubSeq(progs, 1, Len(progs) - 1)

clear_bpf(progs) ==
    IF Len(progs) <= MAX_PROGS THEN <<>> ELSE progs

-----------------------------------------------------------------------------
(* The process: parse_opt calls, then main's steps in program order         *)

\* parse_cfgfile over the lines of the file, from line k on (lines 558-599):
\* [rc, rules, open]; open says that fin was left open on return
RECURSIVE parse_cfgfile_from(_, _, _)
parse_cfgfile_from(lines, k, acc) ==
    IF k > Len(lines) THEN [rc |-> "0", rules |-> acc, open |-> FALSE]
    ELSE LET p == span(lines[k], {" ", "\t"}, 1, FALSE)
         IN  IF At(lines[k], p) \in {"\n", "#"}
             THEN parse_cfgfile_from(lines, k + 1, acc)
             ELSE LET driver == strtok_at(lines[k], {"\t", " "}, p)
                      table == strtok_at(lines[k], {"\t", " "}, driver.next)
                      filename == strtok_at(lines[k], {"\t", " ", "#", "\n"},
                                            table.next)
                  IN  IF driver.null \/ table.null \/ filename.null
                      THEN [rc |-> "EINVAL", rules |-> acc, open |-> TRUE]
                      ELSE parse_cfgfile_from(lines, k + 1,
                              Append(acc, [driver |-> driver.tok,
                                           table |-> table.tok,
                                           fname |-> filename.tok]))

\* parse_cfgfile: [rc, cfg, open].  The rules are written from the head of
\* the static list on, so the first rule of a file replaces the list of an
\* earlier file
parse_cfgfile(old, text) ==
    IF text = NoFile THEN [rc |-> "ENOENT", cfg |-> old, open |-> FALSE]
    ELSE LET r == parse_cfgfile_from(fgets_lines(text), 1, <<>>)
         IN  [rc |-> r.rc, cfg |-> IF r.rules = <<>> THEN old ELSE r.rules,
              open |-> r.open]

\* keymap_to_filename and parse_keymap on the name a rule gives: [rc, map];
\* the environment holds the keymap files a and b in the user directory (the
\* first stat succeeds), any other name fails
parse_keymap(fname) ==
    CASE fname = <<"a">> ->
            [rc |-> 0,
             map |-> <<[protocol |-> <<"r","c","-","5">>, param |-> <<>>,
                        raw |-> <<>>,
                        scancode |-> <<[scancode |-> ScOfInt(256),
                                        keycode |-> KeyTok(116, 0, TRUE, FALSE)]>>]>>]
      [] fname = <<"b">> ->
            [rc |-> 0,
             map |-> <<[protocol |-> <<"n","e","c">>, param |-> <<>>,
                        raw |-> <<>>,
                        scancode |-> <<[scancode |-> ScOfInt(512),
                                        keycode |-> KeyTok(-1, 2, FALSE, FALSE)]>>]>>]
      [] OTHER -> [rc |-> -1, map |-> <<>>]

\* the rule test of main's auto-load loop with case-sensitive comparisons
automatch_case_sensitive(rule, dev) ==
    /\ rule.driver = dev.drv_name \/ rule.driver = <<"*">>
    /\ rule.table = dev.keytable_name \/ rule.table = <<"*">>

\* the rule test of main's auto-load loop (lines 2169-2172)
automatch(rule, dev) ==
    /\ \/ dev.drv_name # NULLSTR /\ strcaseeq(rule.driver, dev.drv_name)
       \/ strcaseeq(rule.driver, <<"*">>)
    /\ \/ dev.keytable_name # NULLSTR /\ strcaseeq(rule.table, dev.keytable_name)
       \/ strcaseeq(rule.table, <<"*">>)

\* main's auto-load loop stopping at the first rule it applied
RECURSIVE autoload_first_match(_, _, _, _, _)
autoload_first_match(g, rules, dev, k, hits) ==
    IF k > Len(rules) \/ hits # <<>>
    THEN [g |-> g, matched |-> hits, failed |-> FALSE]
    ELSE IF ~automatch(rules[k], dev)
    THEN autoload_first_match(g, rules, dev, k + 1, hits)
    ELSE IF parse_keymap(rules[k].fname).rc < 0
    THEN [g |-> g, matched |-> hits, failed |-> TRUE]
    ELSE autoload_first_match(add_keymap(g, parse_keymap(rules[k].fname).map, 1),
                              rules, dev, k + 1, Append(hits, k))

\* main's auto-load loop from rule k on (lines 2168-2194):
\* [g, matched, failed]; failed stands for the return of -1
RECURSIVE autoload(_, _, _, _, _)
autoload(g, rules, dev, k, hits) ==
    IF k > Len(rules) THEN [g |-> g, matched |-> hits, failed |-> FALSE]
    ELSE IF ~automatch(rules[k], dev)
    THEN autoload(g, rules, dev, k + 1, hits)
    ELSE IF parse_keymap(rules[k].fname).rc < 0
    THEN [g |-> g, matched |-> hits, failed |-> TRUE]
    ELSE autoload(add_keymap(g, parse_keymap(rules[k].fname).map, 1),
                  rules, dev, k + 1, Append(hits, k))

RECURSIVE Reverse(_)
Reverse(q) == IF q = <<>> THEN <<>> ELSE Append(Reverse(Tail(q)), Head(q))

ArgGuard == pc = "args" /\ nargs < MaxArgs

\* parse_opt, case 'w': parse_keymap succeeded and handed over maps
OptW(maps) ==
    /\ ArgGuard
    /\ LET g == add_keymap(G, maps, 1)
       IN  /\ Len(g.keytable) <= MaxKeys
           /\ Len(g.bpf_protocol) <= MaxBpf
           /\ SetG(g)
    /\ nargs' = nargs + 1
    /\ UNCHANGED <<pc, clear, readtable, input_protocol_version, write_cnt, rc_dev,
                   envVars, ioctls, stored, out, catVars, autoVars>>

\* parse_opt, case 'k'; argp_error ends the process
OptK(pairs) ==
    /\ ArgGuard
    /\ LET r == parse_opt_k(G, pairs, 1)
       IN  /\ Len(r.g.keytable) <= MaxKeys
           /\ SetG(r.g)
           /\ pc' = IF r.err THEN "exit" ELSE pc
    /\ nargs' = nargs + 1
    /\ UNCHANGED <<clear, readtable, input_protocol_version, write_cnt, rc_dev,
                   envVars, ioctls, stored, out, catVars, autoVars>>

\* parse_opt, case 'p'
OptP(toks) ==
    /\ ArgGuard
    /\ LET g == parse_opt_p(G, toks, 1)
       IN  /\ Len(g.bpf_protocol) <= MaxBpf
           /\ SetG(g)
    /\ nargs' = nargs + 1
    /\ UNCHANGED <<pc, clear, readtable, input_protocol_version, write_cnt, rc_dev,
                   envVars, ioctls, stored, out, catVars, autoVars>>

\* parse_opt, case 'a' (lines 658-663); argp_error ends the process
OptA(text) ==
    /\ ArgGuard
    /\ LET r == parse_cfgfile(cfg, text)
       IN  /\ cfg' = r.cfg
           /\ handles' = IF r.open THEN handles \cup {"cfgfile"} ELSE handles
           /\ errno' = IF r.rc = "ENOENT" THEN "ENOENT" ELSE errno
           /\ pc' = IF r.rc # "0" THEN "exit" ELSE pc
    /\ nargs' = nargs + 1
    /\ UNCHANGED <<keytable, rawtable, raw_scancode, ch_proto, bpf_protocol,
                   clear, readtable, input_protocol_version, write_cnt, rc_dev,
                   envVars, obsVars, matched, catVars>>

\* parse_opt, case 'c'
OptC ==
    /\ pc = "args"
    /\ clear < MaxFlag
    /\ clear' = clear + 1
    /\ UNCHANGED <<pc, nargs, errno, keytable, rawtable, raw_scancode, ch_proto,
                   bpf_protocol, readtable, input_protocol_version, write_cnt,
                   rc_dev, envVars, obsVars, catVars, autoVars>>

\* parse_opt, case 'r'
OptR ==
    /\ pc = "args"
    /\ readtable < MaxFlag
    /\ readtable' = readtable + 1
    /\ UNCHANGED <<pc, nargs, errno, keytable, rawtable, raw_scancode, ch_proto,
                   bpf_protocol, clear, input_protocol_version, write_cnt,
                   rc_dev, envVars, obsVars, catVars, autoVars>>

\* main, lines 2132-2202: with nothing to do the devices are listed and the
\* process ends; auto-load rules exclude -c, keymaps and -p ("usage");
\* otherwise the device is found, its attributes are read ("noattr" when
\* that fails) and the auto-load rules are applied: "nokeymap" when a
\* matching rule's keymap cannot be loaded, "kept" (return 0) when rules
\* exist and none matches
MainDiscover ==
    /\ pc = "args"
    /\ IF clear = 0 /\ readtable = 0 /\ keytable = <<>> /\ ch_proto = {}
          /\ cfg = <<>> /\ bpf_protocol = <<>>
       THEN /\ pc' = "exit"
            /\ UNCHANGED <<rc_dev, clear, matched, errno, keytable, rawtable,
                           raw_scancode, ch_proto, bpf_protocol, bpf_log>>
       ELSE IF cfg # <<>> /\ (clear # 0 \/ keytable # <<>> \/ ch_proto # {})
       THEN /\ pc' = "usage"
            /\ UNCHANGED <<rc_dev, clear, matched, errno, keytable, rawtable,
                           raw_scancode, ch_proto, bpf_protocol, bpf_log>>
       ELSE IF get_attribs_rc(sysfs) # "0"
       THEN /\ pc' = "noattr"
            /\ UNCHANGED <<rc_dev, clear, matched, errno, keytable, rawtable,
                           raw_scancode, ch_proto, bpf_protocol, bpf_log>>
       ELSE LET dev == get_attribs(sysfs)
                a == autoload(G, cfg, dev, 1, <<>>)
            IN  /\ rc_dev' = dev
                /\ SetG(a.g)
                /\ matched' = a.matched
                /\ clear' = IF a.matched # <<>> THEN 1 ELSE clear
                /\ pc' = IF a.failed THEN "nokeymap"
                         ELSE IF cfg # <<>> /\ a.matched = <<>> THEN "kept"
                         ELSE "discovered"
    /\ UNCHANGED <<nargs, readtable, input_protocol_version, write_cnt,
                   envVars, ioctls, stored, out, cfg, handles, catVars>>

\* main, lines 2204-2214: open the input device, get_input_protocol_version
MainOpen ==
    /\ pc = "discovered"
    /\ input_protocol_version' = kver
    /\ handles' = handles \cup {"input"}
    /\ pc' = "opened"
    /\ UNCHANGED <<nargs, errno, keytable, rawtable, raw_scancode, ch_proto,
                   bpf_protocol, clear, readtable, write_cnt, rc_dev,
                   envVars, obsVars, cfg, matched, catVars>>

\* main, first step (lines 2216-2222)
MainClear ==
    /\ pc = "opened"
    /\ ktable' = IF clear # 0
                 THEN clear_table(ktable, input_protocol_version, kver)
                 ELSE ktable
    /\ pc' = "cleared"
    /\ UNCHANGED <<nargs, errno, keytable, rawtable, raw_scancode, ch_proto,
                   bpf_protocol, clear, readtable, input_protocol_version,
                   write_cnt, rc_dev, sysfs, kver, klen, lirc_progs,
                   obsVars, catVars, autoVars>>

\* main's second step followed by a clear of the table it has just written
MainAddKeys_then_clear ==
    /\ pc = "cleared"
    /\ LET r == add_keys(keytable, ktable, kver, klen)
       IN  /\ ktable' = IF clear # 0
                        THEN clear_table(r.t, input_protocol_version, kver)
                        ELSE r.t
           /\ ioctls' = r.log
           /\ write_cnt' = r.cnt
    /\ stored' = Reverse(keytable)
    /\ keytable' = <<>>
    /\ pc' = "written"
    /\ UNCHANGED <<nargs, errno, rawtable, raw_scancode, ch_proto,
                   bpf_protocol, clear, readtable, input_protocol_version,
                   rc_dev, sysfs, kver, klen, lirc_progs, bpf_log, out, catVars, autoVars>>

\* main, second step (lines 2224-2229): add_keys replays and frees the store
MainAddKeys ==
    /\ pc = "cleared"
    /\ LET r == add_keys(keytable, ktable, kver, klen)
       IN  /\ ktable' = r.t
           /\ ioctls' = r.log
           /\ write_cnt' = r.cnt
    /\ stored' = Reverse(keytable)
    /\ keytable' = <<>>
    /\ pc' = "written"
    /\ UNCHANGED <<nargs, errno, rawtable, raw_scancode, ch_proto,
                   bpf_protocol, clear, readtable, input_protocol_version,
                   rc_dev, sysfs, kver, klen, lirc_progs, bpf_log, out, catVars, autoVars>>

\* main, third step (lines 2231-2245): clear_bpf, load_bpf_for_unsupported,
\* set_proto; errno is not read again after the arguments are parsed
MainProto ==
    /\ pc = "written"
    /\ IF ch_proto # {} \/ bpf_protocol # <<>>
       THEN LET l == load_bpf_for_unsupported(G, ch_proto, rc_dev.supported, 1)
                r == set_proto([rc_dev EXCEPT !.current = l.protocols], sysfs)
            IN  /\ lirc_progs' = IF rc_dev.lirc_name THEN clear_bpf(lirc_progs)
                                 ELSE lirc_progs
                /\ bpf_protocol' = l.g.bpf_protocol
                /\ bpf_log' = l.g.bpf_log
                /\ rc_dev' = r.dev
                /\ sysfs' = r.fs
       ELSE UNCHANGED <<lirc_progs, bpf_protocol, bpf_log, rc_dev, sysfs>>
    /\ pc' = "proto"
    /\ UNCHANGED <<nargs, errno, keytable, rawtable, raw_scancode, ch_proto,
                   clear, readtable, input_protocol_version, write_cnt,
                   ktable, kver, klen, ioctls, stored, out, catVars, autoVars>>

\* main, lines 2247-2263: every pending request is attached to the lirc
\* device, head of the list first (find_bpf_file finds each program and the
\* kernel accepts it)
MainAttach ==
    /\ pc = "proto"
    /\ lirc_progs' = IF bpf_protocol # <<>> /\ rc_dev.lirc_name
                     THEN lirc_progs \o [i \in 1..Len(bpf_protocol) |->
                                            bpf_protocol[i].name]
                     ELSE lirc_progs
    /\ pc' = "attached"
    /\ UNCHANGED <<nargs, errno, keytable, rawtable, raw_scancode, ch_proto,
                   bpf_protocol, clear, readtable, input_protocol_version,
                   write_cnt, rc_dev, sysfs, ktable, kver, klen, obsVars, catVars, autoVars>>

\* main, fourth step (lines 2265-2269)
MainDisplay ==
    /\ pc = "attached"
    /\ IF readtable # 0
       THEN LET r == display_table(ktable, input_protocol_version, kver, klen)
            IN  /\ out' = r.out
                /\ pc' = IF r.hang THEN "hang" ELSE "done"
       ELSE out' = out /\ pc' = "done"
    /\ UNCHANGED <<nargs, errno, keytable, rawtable, raw_scancode, ch_proto,
                   bpf_protocol, clear, readtable, input_protocol_version,
                   write_cnt, rc_dev, envVars, ioctls, stored, bpf_log, catVars, autoVars>>

\* the process and its environment before any argument is parsed
RunIdle ==
    /\ pc = "off" /\ nargs = 0 /\ errno = "0"
    /\ keytable = <<>> /\ rawtable = <<>> /\ raw_scancode = 0
    /\ ch_proto = {} /\ bpf_protocol = <<>>
    /\ clear = 0 /\ readtable = 0
    /\ input_protocol_version = 0 /\ write_cnt = 0
    /\ rc_dev = rc_dev_zero
    /\ ioctls = <<>> /\ stored = <<>> /\ bpf_log = <<>> /\ out = <<>>
    /\ cfg = <<>> /\ handles = {} /\ matched = <<>>

\* no device
NoDevice ==
    [nodes |-> <<>>, writable |-> FALSE, lirc |-> FALSE, writes |-> <<>>,
     uevent |-> <<>>, ulines |-> <<>>]

EnvIdle ==
    /\ sysfs = NoDevice /\ ktable = {} /\ kver = EV_VERSION_V2 /\ klen = 4
    /\ lirc_progs = <<>>

RunStart ==
    /\ pc = "args" /\ nargs = 0 /\ errno = "0"
    /\ keytable = <<>> /\ rawtable = <<>> /\ raw_scancode = 0
    /\ ch_proto = {} /\ bpf_protocol = <<>>
    /\ clear = 0 /\ readtable = 0
    /\ input_protocol_version = 0 /\ write_cnt = 0
    /\ rc_dev = rc_dev_zero
    /\ ioctls = <<>> /\ stored = <<>> /\ bpf_log = <<>> /\ out = <<>>
    /\ cfg = <<>> /\ handles = {} /\ matched = <<>>

-----------------------------------------------------------------------------
(* Specification SpecCatalog: a catalog name, edited in case and            *)
(* separators, is parsed, the mask is formatted and the output re-parsed.   *)

CatIdle ==
    /\ catName = <<>> /\ catOrigin = 0 /\ catEdits = 0 /\ catPc = "off"
    /\ catMask = {} /\ catOut = <<>> /\ catBack = <<>>

CatInit ==
    /\ catOrigin \in 1..NPme
    /\ catName = protocol_map[catOrigin].name
    /\ catEdits = 0
    /\ catPc = "input"
    /\ catMask = {} /\ catOut = <<>> /\ catBack = <<>>
    /\ RunIdle
    /\ EnvIdle

InsertAt(s, p, c) == SubSeq(s, 1, p - 1) \o <<c>> \o SubSeq(s, p, Len(s))
RemoveAt(s, p) == SubSeq(s, 1, p - 1) \o SubSeq(s, p + 1, Len(s))

CatEdited(n) ==
    /\ catPc = "input"
    /\ catEdits < MaxEdits
    /\ catName' = n
    /\ catEdits' = catEdits + 1
    /\ UNCHANGED <<catOrigin, catPc, catMask, catOut, catBack,
                   runVars, envVars, obsVars, autoVars>>

\* change the case of one letter
CatCase ==
    \E p \in 1..Len(catName) :
        /\ tolower(catName[p]) # toupper(catName[p])
        /\ CatEdited([catName EXCEPT ![p] =
                IF catName[p] = tolower(catName[p])
                THEN toupper(catName[p]) ELSE tolower(catName[p])])

\* insert a separator at any position, also next to another one, first or last
CatInsert ==
    \E p \in 1..(Len(catName) + 1), c \in {"-", "_"} :
        CatEdited(InsertAt(catName, p, c))

\* remove a separator
CatRemove ==
    \E p \in 1..Len(catName) :
        /\ IsSep(catName[p])
        /\ CatEdited(RemoveAt(catName, p))

\* swap '-' and '_'
CatSwap ==
    \E p \in 1..Len(catName) :
        /\ IsSep(catName[p])
        /\ CatEdited([catName EXCEPT ![p] = IF catName[p] = "-" THEN "_" ELSE "-"])

CatParse ==
    /\ catPc = "input"
    /\ catMask' = parse_sysfs_protocol(catName, FALSE)
    /\ catPc' = "parsed"
    /\ UNCHANGED <<catName, catOrigin, catEdits, catOut, catBack,
                   runVars, envVars, obsVars, autoVars>>

CatWrite ==
    /\ catPc = "parsed"
    /\ catOut' = write_sysfs_names(catMask)
    /\ catPc' = "written"
    /\ UNCHANGED <<catName, catOrigin, catEdits, catMask, catBack,
                   runVars, envVars, obsVars, autoVars>>

CatReparse ==
    /\ catPc = "written"
    /\ catBack' = [i \in 1..Len(catOut) |-> parse_sysfs_protocol(catOut[i], FALSE)]
    /\ catPc' = "reparsed"
    /\ UNCHANGED <<catName, catOrigin, catEdits, catMask, catOut,
                   runVars, envVars, obsVars, autoVars>>

CatNext ==
    \/ CatCase
    \/ CatInsert
    \/ CatRemove
    \/ CatSwap
    \/ CatParse
    \/ CatWrite
    \/ CatReparse

SpecCatalog == CatInit /\ [][CatNext]_vars

\* the catalog entry's own mask
OriginMask == protocol_map[catOrigin].sysfs_protocol

(* C8: for every canonical catalog name with a non-zero flag, formatting   *)
(* the parsed mask emits exactly one name and that name re-parses to the   *)
(* same single-bit mask; every zero-bit alias parses to SYSFS_INVALID.     *)
C8_RoundTrip ==
    (catEdits = 0 /\ catPc = "reparsed") =>
        IF OriginMask # SYSFS_INVALID
        THEN /\ Cardinality(catMask) = 1
             /\ catMask = OriginMask
             /\ Len(catOut) = 1
             /\ catBack = <<catMask>>
        ELSE /\ catMask = SYSFS_INVALID
             /\ catOut = <<>>

C8_Witness ==
    /\ catEdits = 0 /\ catPc = "reparsed"
    /\ catName = <<"r","c","-","5","-","s","z">>
    /\ catOut = <<catName>>
    /\ catBack = <<SYSFS_RC5_SZ>>

(* C9: every input obtained from a catalog name by changing letter case    *)
(* and inserting, removing or swapping separators at any positions parses  *)
(* to the same mask as the catalog name.                                   *)
C9_SeparatorInsensitive ==
    catPc = "parsed" =>
        catMask = parse_sysfs_protocol(protocol_map[catOrigin].name, FALSE)

\* protocol_like never reads past a terminator against a catalog name
CatNoOverread ==
    \A k \in 1..NPme :
        ~protocol_like_overreads(catName, protocol_map[k].name, 1, 1)

-----------------------------------------------------------------------------
(* Specification SpecAttribs: one run of the tool on each of a family of    *)
(* rc device directories (V2, V1 hardware, V1 software), with -c, -r and -p *)

T_nec == <<"n","e","c">>
T_rc5 == <<"r","c","-","5">>
T_rc6 == <<"r","c","-","6">>
T_foo == <<"f","o","o">>
T_bar == <<"b","a","r">>

T_none == <<"n","o","n","e">>

\* one token of a protocol file as the kernel prints it: the name, wrapped
\* in [] when the protocol is enabled
Tok(name, on) == [name |-> name, on |-> on]

Render(t) == IF t.on THEN <<"[">> \o t.name \o <<"]">> ELSE t.name

\* the tokens separated by blanks, and a newline
RECURSIVE Line(_)
Line(toks) ==
    IF toks = <<>> THEN <<"\n">>
    ELSE IF Len(toks) = 1 THEN Render(Head(toks)) \o <<"\n">>
    ELSE Render(Head(toks)) \o <<" ">> \o Line(Tail(toks))

\* a token absent, plain or wrapped
Marked(t) == {<<>>, <<Tok(t, FALSE)>>, <<Tok(t, TRUE)>>}

V2Lines ==
    {a \o b \o c \o u : a \in Marked(T_nec), b \in Marked(T_rc5),
                        c \in {<<>>, <<Tok(T_rc6, TRUE)>>},
                        u \in {<<>>, <<Tok(T_foo, FALSE)>>, <<Tok(T_bar, TRUE)>>,
                               <<Tok(T_foo, FALSE), Tok(T_bar, TRUE)>>}}

\* a line of the device's uevent file: KEY=value, or a text without '='
UKey(key, value) == [key |-> key, value |-> value, eq |-> TRUE]
UJunk(text) == [key |-> text, value |-> <<>>, eq |-> FALSE]

ULine(l) ==
    IF l.eq THEN l.key \o <<"=">> \o l.value \o <<"\n">> ELSE l.key \o <<"\n">>

UText(ls) == Flatten([i \in 1..Len(ls) |-> ULine(ls[i])])

\* the uevent file of a device whose names do not matter to the run
PlainUevent == <<UKey(N_NAME, <<"r","c">>)>>

\* ulines records what was printed into uevent
Dev(nodes, writable, lirc) ==
    [nodes |-> nodes, writable |-> writable, lirc |-> lirc, writes |-> <<>>,
     uevent |-> UText(PlainUevent), ulines |-> PlainUevent]

\* a directory entry; toks records what the kernel printed into text
Node(name, text, toks) == [name |-> name, text |-> text, toks |-> toks]

FileNode(name, toks) == Node(name, Line(toks), toks)

V2Devices ==
    {Dev(<<FileNode(N_protocols, l)>>, TRUE, TRUE) : l \in V2Lines}
    \cup {Dev(<<FileNode(N_protocols, <<Tok(T_nec, FALSE), Tok(T_rc6, TRUE)>>)>>,
              FALSE, TRUE)}

N_supported_protocols ==
    <<"s","u","p","p","o","r","t","e","d","_","p","r","o","t","o","c","o","l","s">>

HwProtocolLines ==
    {<<Tok(T_rc5, FALSE)>>, <<Tok(T_nec, FALSE), Tok(T_rc6, FALSE)>>,
     <<Tok(T_foo, FALSE)>>}
HwSupportedLines ==
    {<<Tok(T_rc5, FALSE), Tok(T_nec, FALSE), Tok(T_rc6, FALSE)>>,
     <<Tok(T_nec, FALSE)>>}

V1HwDevices ==
    {Dev(<<FileNode(N_protocol, c)>>, TRUE, FALSE) : c \in HwProtocolLines}
    \cup {Dev(<<FileNode(N_protocol, c), FileNode(N_supported_protocols, l)>>,
              TRUE, FALSE) : c \in HwProtocolLines, l \in HwSupportedLines}
    \cup {Dev(<<FileNode(N_supported_protocols, l), FileNode(N_protocol, c)>>,
              TRUE, FALSE) : c \in HwProtocolLines, l \in HwSupportedLines}

N_nec_decoder == <<"n","e","c","_","d","e","c","o","d","e","r">>
N_rc5_decoder == <<"r","c","5","_","d","e","c","o","d","e","r">>

\* a decoder directory absent, or present with this "enabled" file
Decoder(name, texts) == {<<>>} \cup {<<Node(name, t, <<>>)>> : t \in texts}

V1SwDevices ==
    {Dev(a \o b, TRUE, FALSE) :
        a \in Decoder(N_nec_decoder, {<<"1","\n">>, <<"0","\n">>}),
        b \in Decoder(N_rc5_decoder, {<<"1","\n">>, <<"0","\n">>, NoFile})}

AttrDevices == V2Devices \cup V1HwDevices \cup V1SwDevices

AttrInit ==
    /\ CatIdle
    /\ RunStart
    /\ sysfs \in AttrDevices
    /\ ktable = {} /\ kver = EV_VERSION_V2 /\ klen = 4
    /\ lirc_progs = <<>>

\* -p with catalog names
OptProtocols == \E toks \in {<<T_nec>>, <<T_rc5, T_rc6>>} : OptP(toks)

AttrNext ==
    \/ OptC
    \/ OptR
    \/ OptProtocols
    \/ MainDiscover
    \/ MainOpen
    \/ MainClear
    \/ MainAddKeys
    \/ MainProto
    \/ MainAttach
    \/ MainDisplay

SpecAttribs == AttrInit /\ [][AttrNext]_vars

\* the device directory is of the kind that has this node and not that one
IsV2Dir == HasNode(sysfs, N_protocols)
IsV1HwDir == HasNode(sysfs, N_protocol)
IsV1SwDir == ~IsV2Dir /\ ~IsV1HwDir /\ ~HasNode(sysfs, N_supported_protocols)

\* the catalog bit the kernel means by a token; names the catalog does not
\* know are reported as "other"
ExpectedBit(name) ==
    CASE name = T_nec -> SYSFS_NEC
      [] name = T_rc5 -> SYSFS_RC5
      [] name = T_rc6 -> SYSFS_RC6
      [] OTHER -> SYSFS_OTHER

\* what the kernel printed into a file of the device directory
ToksOf(name) ==
    sysfs.nodes[CHOOSE i \in 1..Len(sysfs.nodes) : sysfs.nodes[i].name = name].toks

TokSet(name) == {ToksOf(name)[i] : i \in 1..Len(ToksOf(name))}

\* the decoder subnodes of a V1 software directory, and those whose enabled
\* file holds 1, as catalog bits
SwPresent ==
    (IF HasNode(sysfs, N_nec_decoder) THEN SYSFS_NEC ELSE {})
    \cup (IF HasNode(sysfs, N_rc5_decoder) THEN SYSFS_RC5 ELSE {})

SwEnabled ==
    (IF HasNode(sysfs, N_nec_decoder) /\ NodeText(sysfs, N_nec_decoder) = <<"1","\n">>
     THEN SYSFS_NEC ELSE {})
    \cup (IF HasNode(sysfs, N_rc5_decoder)
             /\ NodeText(sysfs, N_rc5_decoder) = <<"1","\n">>
          THEN SYSFS_RC5 ELSE {})

(* C2: on a V1 software-decoder device, after get_attribs, supported is the *)
(* set of decoders present as subnodes and current is exactly the subset   *)
(* whose enabled file holds 1.                                             *)
C2_SwCurrentIsEnabled ==
    (pc = "discovered" /\ IsV1SwDir) =>
        /\ rc_dev.supported = SwPresent
        /\ rc_dev.current = SwEnabled

(* C3 as stated: on a V1 hardware-decoder device every token of the        *)
(* protocol file is in both supported and current, with or without a       *)
(* supported_protocols node.                                               *)
C3_HwTokensSupportedAndCurrent ==
    (pc = "discovered" /\ IsV1HwDir) =>
        \A t \in TokSet(N_protocol) :
            /\ ExpectedBit(t.name) \subseteq rc_dev.current
            /\ ExpectedBit(t.name) \subseteq rc_dev.supported

(* C3 amended: every token of the protocol file is in current (and nothing *)
(* else is); supported holds exactly the tokens of supported_protocols and *)
(* is empty when that node does not exist.                                 *)
C3_HwCurrentFromProtocol ==
    (pc = "discovered" /\ IsV1HwDir) =>
        /\ rc_dev.version = VERSION_1
        /\ rc_dev.type = HARDWARE_DECODER
        /\ rc_dev.current = UNION {ExpectedBit(t.name) : t \in TokSet(N_protocol)}
        /\ rc_dev.supported =
              IF HasNode(sysfs, N_supported_protocols)
              THEN UNION {ExpectedBit(t.name) : t \in TokSet(N_supported_protocols)}
              ELSE {}

C3_Witness ==
    /\ pc = "discovered"
    /\ IsV1HwDir
    /\ ~HasNode(sysfs, N_supported_protocols)
    /\ NodeText(sysfs, N_protocol) = <<"n","e","c"," ","r","c","-","6","\n">>
    /\ rc_dev.current = SYSFS_NEC \cup SYSFS_RC6
    /\ rc_dev.supported = {}

(* C10 as stated: on a V2 device every token of the protocols line is in   *)
(* supported, a token is in current iff it is wrapped in [], and current   *)
(* is a subset of supported.                                               *)
C10_V2TokenCurrentIffWrapped ==
    (pc = "discovered" /\ IsV2Dir) =>
        /\ \A t \in TokSet(N_protocols) :
              /\ ExpectedBit(t.name) \subseteq rc_dev.supported
              /\ t.on <=> ExpectedBit(t.name) \subseteq rc_dev.current
        /\ rc_dev.current \subseteq rc_dev.supported

(* C10 amended: supported is the set of protocols some token names,        *)
(* current the set of protocols some wrapped token names, a token the      *)
(* catalog does not know naming "other"; current is a subset of supported. *)
C10_V2ProtocolCurrentIffWrapped ==
    (pc = "discovered" /\ IsV2Dir) =>
        /\ rc_dev.version = VERSION_2
        /\ rc_dev.supported = UNION {ExpectedBit(t.name) : t \in TokSet(N_protocols)}
        /\ rc_dev.current =
              UNION {ExpectedBit(t.name) : t \in {u \in TokSet(N_protocols) : u.on}}
        /\ rc_dev.current \subseteq rc_dev.supported

C10_Witness ==
    /\ pc = "discovered"
    /\ IsV2Dir
    /\ NodeText(sysfs, N_protocols) =
          <<"n","e","c"," ","r","c","-","5"," ","[","r","c","-","6","]","\n">>
    /\ rc_dev.supported = SYSFS_NEC \cup SYSFS_RC5 \cup SYSFS_RC6
    /\ rc_dev.current = SYSFS_RC6


\* the text the protocol-change step is expected to leave in a V2 protocols
\* node for a target among rc-5, nec and rc-6, spelled out line by line
PlusLines(target) ==
    <<"n","o","n","e","\n">>
    \o (IF SYSFS_RC5 \subseteq target THEN <<"+","r","c","-","5","\n">> ELSE <<>>)
    \o (IF SYSFS_NEC \subseteq target THEN <<"+","n","e","c","\n">> ELSE <<>>)
    \o (IF SYSFS_RC6 \subseteq target THEN <<"+","r","c","-","6","\n">> ELSE <<>>)

\* C11: on a V2 device whose protocols node is writable, the protocol-change
\* step writes that node once, with the line "none" followed by one "+<name>"
\* line per bit of the requested target, in catalog order, whether or not
\* the device supports the bit
C11_V2WritesNoneThenTarget ==
    (pc = "proto" /\ IsV2Dir /\ sysfs.writable /\ ch_proto # {}) =>
        /\ ch_proto \subseteq SYSFS_RC5 \cup SYSFS_NEC \cup SYSFS_RC6
        /\ sysfs.writes = <<[path |-> N_protocols, text |-> PlusLines(ch_proto)]>>

\* a device that does not list nec is asked for nec and gets "none\n+nec\n"
C11_Witness ==
    /\ pc = "proto" /\ IsV2Dir /\ sysfs.writable
    /\ ch_proto = SYSFS_NEC
    /\ \A t \in TokSet(N_protocols) : t.name # T_nec
    /\ sysfs.writes = <<[path |-> N_protocols,
                         text |-> <<"n","o","n","e","\n","+","n","e","c","\n">>]>>

\* C12: on a V2 device whose protocols node has no write permission bit,
\* v2_set_protocols returns an error and leaves the device directory as it
\* was, so the protocol-change step has written nothing
C12_V2ReadOnlyNoWrite ==
    (IsV2Dir /\ ~sysfs.writable) =>
        /\ pc = "written" =>
              LET r == v2_set_protocols([rc_dev EXCEPT !.current = ch_proto], sysfs)
              IN  r.failed # 0 /\ r.fs = sysfs
        /\ pc = "proto" => sysfs.writes = <<>>

\* the read-only device after a protocol change to nec was requested
C12_Witness ==
    /\ pc = "proto" /\ IsV2Dir /\ ~sysfs.writable
    /\ ch_proto = SYSFS_NEC
    /\ sysfs.writes = <<>>

\* the write the protocol-change step owes a decoder subnode whose enabled
\* file can be opened: "1" when the decoder's bit is in the target, else "0"
EnabledWrite(node, bit, target) ==
    IF HasNode(sysfs, node) /\ NodeText(sysfs, node) # NoFile
    THEN <<[path |-> node \o <<"/","e","n","a","b","l","e","d">>,
            text |-> IF bit \subseteq target THEN <<"1">> ELSE <<"0">>]>>
    ELSE <<>>

\* the line the step owes the protocol node of a V1 hardware decoder
NameLine(target) ==
    (IF SYSFS_RC5 \subseteq target THEN <<"r","c","-","5"," ">> ELSE <<>>)
    \o (IF SYSFS_NEC \subseteq target THEN <<"n","e","c"," ">> ELSE <<>>)
    \o (IF SYSFS_RC6 \subseteq target THEN <<"r","c","-","6"," ">> ELSE <<>>)
    \o <<"\n">>

\* C13: on a V1 device the protocol-change step narrows the target to the
\* supported mask; a software decoder then gets "1" in the enabled file of
\* each supported decoder of the narrowed target and "0" in that of every
\* other supported decoder, a hardware decoder gets one line of the names
\* of exactly the narrowed target
C13_V1WritesNarrowedTarget ==
    (pc = "proto" /\ ~IsV2Dir /\ ch_proto # {}) =>
        /\ rc_dev.current = ch_proto \cap rc_dev.supported
        /\ rc_dev.type = SOFTWARE_DECODER =>
              /\ rc_dev.supported = SwPresent
              /\ sysfs.writes =
                    EnabledWrite(N_rc5_decoder, SYSFS_RC5, rc_dev.current)
                    \o EnabledWrite(N_nec_decoder, SYSFS_NEC, rc_dev.current)
        /\ rc_dev.type = HARDWARE_DECODER =>
              sysfs.writes = <<[path |-> N_protocol,
                                text |-> NameLine(rc_dev.current)]>>

\* a hardware decoder that supports nec only is asked for rc-5 and rc-6 and
\* gets an empty line; a software decoder with both subnodes is asked for
\* nec and gets rc5 switched off and nec switched on
C13_Witness ==
    /\ pc = "proto" /\ ~IsV2Dir
    /\ \/ /\ rc_dev.type = HARDWARE_DECODER
          /\ ch_proto = SYSFS_RC5 \cup SYSFS_RC6
          /\ rc_dev.supported = SYSFS_NEC
          /\ sysfs.writes = <<[path |-> N_protocol, text |-> <<"\n">>]>>
       \/ /\ rc_dev.type = SOFTWARE_DECODER
          /\ ch_proto = SYSFS_NEC
          /\ Len(sysfs.writes) = 2
          /\ sysfs.writes[1].text = <<"0">>
          /\ sysfs.writes[2].text = <<"1">>

-----------------------------------------------------------------------------
(* Specification SpecBpf: runs whose arguments request BPF decoders, by     *)
(* keymaps that name a protocol the catalog does not know and by -p         *)

T_grundig == <<"g","r","u","n","d","i","g">>
T_manchester == <<"m","a","n","c","h","e","s","t","e","r">>

Param(name, value) == [name |-> name, value |-> value]

\* {a:1,b:2}, the same in the other order, one value changed, a strict subset
BpfParams ==
    {<<Param("a", 1), Param("b", 2)>>, <<Param("b", 2), Param("a", 1)>>,
     <<Param("a", 1), Param("b", 3)>>, <<Param("a", 1)>>}

\* keymap files of one map, or of two maps for the same protocol, that name a
\* BPF protocol and bind no key
BpfKeymaps ==
    {<<[protocol |-> n, param |-> q, scancode |-> <<>>, raw |-> <<>>]>> :
        n \in {T_grundig, T_manchester}, q \in BpfParams}
    \cup {<<[protocol |-> T_grundig, param |-> q1, scancode |-> <<>>, raw |-> <<>>],
             [protocol |-> T_grundig, param |-> q2, scancode |-> <<>>, raw |-> <<>>]>> :
            q1 \in {<<Param("a", 1), Param("b", 2)>>}, q2 \in BpfParams}

OptBpfKeymap == \E maps \in BpfKeymaps : OptW(maps)

\* -p with a name the catalog does not know, or with xbox-dvd, which the
\* device does not decode
OptBpfProtocols ==
    \E toks \in {<<T_grundig>>, <<N_xbox_dvd>>, <<T_nec, T_grundig>>} : OptP(toks)

\* two raw receivers: "nec [rc-6]" and "nec [rc-6] xbox-dvd"
BpfDevices ==
    {Dev(<<FileNode(N_protocols, <<Tok(T_nec, FALSE), Tok(T_rc6, TRUE)>>)>>,
         TRUE, TRUE),
     Dev(<<FileNode(N_protocols, <<Tok(T_nec, FALSE), Tok(T_rc6, TRUE),
                                   Tok(N_xbox_dvd, FALSE)>>)>>,
         TRUE, TRUE)}

BpfInit ==
    /\ CatIdle
    /\ RunStart
    /\ sysfs \in BpfDevices
    /\ ktable = {} /\ kver = EV_VERSION_V2 /\ klen = 4
    /\ lirc_progs \in {<<T_manchester>>, <<T_manchester, T_grundig>>}

BpfNext ==
    \/ OptBpfKeymap
    \/ OptBpfProtocols
    \/ MainDiscover
    \/ MainOpen
    \/ MainClear
    \/ MainAddKeys
    \/ MainProto
    \/ MainAttach
    \/ MainDisplay

SpecBpf == BpfInit /\ [][BpfNext]_vars

\* a request's parameters as a set of (name, value) pairs
ParamSet(r) == {<<r.param[i].name, r.param[i].value>> : i \in 1..Len(r.param)}

\* same name, same parameters as sets
Equivalent(r1, r2) == r1.name = r2.name /\ ParamSet(r1) = ParamSet(r2)

\* the requests made so far, and those pending
Requested == {[name |-> bpf_log[i].name, param |-> bpf_log[i].param] :
                 i \in 1..Len(bpf_log)}
Pending == {bpf_protocol[i] : i \in 1..Len(bpf_protocol)}

\* every request so far went through add_bpf_protocol
AllRegistered == \A i \in 1..Len(bpf_log) : bpf_log[i].origin # "opt_p"

(* C5: whatever the origin of the requests (keymap, -p, xbox-dvd fallback), *)
(* the pending list never holds two requests with the same name and equal  *)
(* parameter sets.                                                         *)
C5_NoEquivalentPending ==
    \A i, j \in 1..Len(bpf_protocol) :
        i # j => ~Equivalent(bpf_protocol[i], bpf_protocol[j])

(* C6: add_bpf_protocol keeps one pending request per class of requests    *)
(* with the same name and the same set of (name, value) parameters: a      *)
(* request in another order is dropped, one with another value or with a   *)
(* sub- or superset of the parameters is kept.                             *)
C6_OnePerEquivalenceClass ==
    AllRegistered =>
        /\ \A r \in Requested : \E q \in Pending : Equivalent(r, q)
        /\ \A q \in Pending : \E r \in Requested : r = q
        /\ \A i, j \in 1..Len(bpf_protocol) :
              i # j => ~Equivalent(bpf_protocol[i], bpf_protocol[j])

\* {a:1,b:2}, then {b:2,a:1} (dropped), then {a:1,b:3} (kept)
C6_Witness ==
    /\ Len(bpf_log) = 3
    /\ AllRegistered
    /\ bpf_log[1].name = T_grundig /\ bpf_log[2].name = T_grundig
    /\ bpf_log[3].name = T_grundig
    /\ bpf_log[1].param = <<Param("a", 1), Param("b", 2)>>
    /\ bpf_log[2].param = <<Param("b", 2), Param("a", 1)>>
    /\ bpf_log[3].param = <<Param("a", 1), Param("b", 3)>>
    /\ bpf_protocol = <<[name |-> T_grundig, param |-> bpf_log[3].param],
                        [name |-> T_grundig, param |-> bpf_log[1].param]>>


-----------------------------------------------------------------------------
(* Specification Spec: runs that fill the Keytable Store from keymap files  *)
(* (-w) and inline pairs (-k), optionally clear (-c) and read back (-r),    *)
(* against legacy, indexed 32-bit and indexed 64-bit kernels                *)

Sc0100 == ScOfInt(256)
Sc0200 == ScOfInt(512)
Sc010000 == ScOfInt(65536)
ScMax == <<Limb - 1, Limb - 1, Limb - 1, Limb - 1>>
ScInputs == {Sc0100, Sc0200, ScMax}

\* the texts "KEY_POWER" (a name of the keycode table), "2", "KEY_BOGUS"
\* (no name, no number: strtol gives 0 and stops at the K) and a number
\* too large for a long
K_POWER == KeyTok(116, 0, TRUE, FALSE)
K_2 == KeyTok(-1, 2, FALSE, FALSE)
K_BOGUS == KeyTok(-1, 0, TRUE, FALSE)
K_HUGE == KeyTok(-1, 2147483647, FALSE, TRUE)

SE(sc, tok) == [scancode |-> sc, keycode |-> tok]

KeyMap(protocol, ses, res) ==
    <<[protocol |-> protocol, param |-> <<>>, scancode |-> ses, raw |-> res]>>

\* keymap files: one binding; the same scancode twice; two scancodes in
\* both orders; an unknown name; an overflowing number; one raw entry
KeyKeymaps ==
    {KeyMap(T_nec, <<SE(sc, K_POWER)>>, <<>>) : sc \in ScInputs}
    \cup {KeyMap(T_nec, <<SE(Sc0100, K_POWER), SE(Sc0100, K_2)>>, <<>>),
          KeyMap(T_nec, <<SE(Sc0100, K_POWER), SE(Sc0200, K_2)>>, <<>>),
          KeyMap(T_nec, <<SE(Sc0200, K_2), SE(Sc0100, K_POWER)>>, <<>>),
          KeyMap(T_nec, <<SE(Sc0100, K_BOGUS)>>, <<>>),
          KeyMap(T_nec, <<SE(Sc0200, K_HUGE)>>, <<>>),
          KeyMap(T_none, <<>>, <<[keycode |-> K_POWER]>>)}

Pair(sc, tok) == [sc |-> sc, key |-> tok]

\* -k arguments: one pair; two pairs; a scancode without keycode; a name
\* that is no keycode; a 32-bit scancode the legacy loops do not visit
KeyPairs ==
    {<<Pair(ScTok(sc, FALSE), tok)>> : sc \in ScInputs, tok \in {K_POWER, K_2}}
    \cup {<<Pair(ScTok(Sc0100, FALSE), K_2), Pair(ScTok(ScMax, FALSE), K_POWER)>>,
          <<Pair(ScTok(Sc0100, FALSE), NoKeyTok)>>,
          <<Pair(ScTok(Sc0200, FALSE), K_BOGUS)>>,
          <<Pair(ScTok(Sc010000, FALSE), K_POWER)>>}

OptKeymap == \E maps \in KeyKeymaps : OptW(maps)

OptKeys == \E pairs \in KeyPairs : OptK(pairs)

KE(sc, kc) == [scancode |-> sc, keycode |-> kc]

\* what the kernel's table holds before the run
OldTable == {KE(Sc0100, 7), KE(Sc0200, 5), KE(<<0, 0, 1, 0>>, 9)}
OldWideTable == OldTable \cup {KE(<<0, 1, 0, 0>>, 11)}
\* the table of a driver whose records carry 2-byte scancodes
OldNarrowTable == {KE(Sc0100, 7), KE(Sc0200, 5)}

Init ==
    /\ CatIdle
    /\ RunStart
    /\ sysfs = Dev(<<FileNode(N_protocols, <<Tok(T_rc5, FALSE), Tok(T_nec, TRUE)>>)>>,
                   TRUE, TRUE)
    /\ lirc_progs = <<>>
    /\ \/ kver = EV_VERSION_V2 - 1 /\ klen = 4 /\ ktable = OldTable
       \/ kver = EV_VERSION_V2 /\ klen = 4 /\ ktable = OldTable
       \/ kver = EV_VERSION_V2 /\ klen = 8 /\ ktable = OldWideTable
       \/ kver = EV_VERSION_V2 /\ klen = 2 /\ ktable = OldNarrowTable

Next ==
    \/ OptKeymap
    \/ OptKeys
    \/ OptC
    \/ OptR
    \/ MainDiscover
    \/ MainOpen
    \/ MainClear
    \/ MainAddKeys
    \/ MainProto
    \/ MainAttach
    \/ MainDisplay

Spec == Init /\ [][Next]_vars


\* stored lists the bindings add_keys replayed, the one added first first;
\* the ioctl for stored[i] is ioctls[Len(stored) + 1 - i]
IoctlFor(i) == ioctls[Len(stored) + 1 - i]

AllIoctlsOk == \A i \in 1..Len(ioctls) : ioctls[i].ok

\* the binding added last among those for the scancode of stored[i]
LastFor(i) ==
    stored[CHOOSE j \in 1..Len(stored) :
              /\ stored[j].scancode = stored[i].scancode
              /\ \A k \in 1..Len(stored) :
                    stored[k].scancode = stored[i].scancode => k <= j]

(* C1: when the store holds two bindings for one scancode, after add_keys   *)
(* the kernel table maps the scancode to the keycode of the binding that   *)
(* was added last.                                                         *)
C1_LastAddedWins ==
    (pc = "written" /\ AllIoctlsOk) =>
        \A i \in 1..Len(stored) :
            K_EVIOCGKEYCODE(ktable, stored[i].scancode) = LastFor(i).keycode

\* the scancode does not fit in 32 bits
Wide(sc) == sc[1] # 0 \/ sc[2] # 0

(* C4: add_keys uses EVIOCSKEYCODE_V2 with len 8 for a scancode wider than  *)
(* 32 bits whatever the version; otherwise the family the version probe    *)
(* selected: EVIOCSKEYCODE_V2 from 0x10001 on, EVIOCSKEYCODE only below.   *)
C4_FamilyByVersion ==
    pc = "written" =>
        \A i \in 1..Len(stored) :
            IF Wide(stored[i].scancode)
            THEN IoctlFor(i).req = "EVIOCSKEYCODE_V2" /\ IoctlFor(i).len = 8
            ELSE IoctlFor(i).req =
                    IF input_protocol_version >= EV_VERSION_V2
                    THEN "EVIOCSKEYCODE_V2" ELSE "EVIOCSKEYCODE"

\* the bindings programmed have pairwise distinct scancodes and name a key
DistinctBindings ==
    /\ \A i, j \in 1..Len(stored) :
          i # j => stored[i].scancode # stored[j].scancode
    /\ \A i \in 1..Len(stored) : stored[i].keycode # KEY_RESERVED

\* the scancodes are in the range of the family the run uses
InFamilyRange ==
    input_protocol_version < EV_VERSION_V2 =>
        \A i \in 1..Len(stored) : In16(stored[i].scancode)

C7_WitnessIndexed ==
    /\ pc = "done" /\ clear # 0 /\ readtable # 0
    /\ input_protocol_version >= EV_VERSION_V2
    /\ stored = <<KE(ScMax, 116), KE(Sc0100, 2)>>
    /\ AllIoctlsOk
    /\ out = <<KE(Sc0100, 2), KE(ScMax, 116)>>

C18_WitnessIndexed ==
    /\ pc = "cleared" /\ clear # 0
    /\ input_protocol_version = EV_VERSION_V2 /\ klen = 8
    /\ ktable = {}

\* a keycode text add_keymap is to accept: a known key name, or else an
\* integer literal in range with nothing after it; and the keycode it names
Resolvable(tok) == tok.sym # -1 \/ (~tok.rest /\ ~tok.erange)
KeycodeOf(tok) == IF tok.sym # -1 THEN tok.sym ELSE tok.num

\* the bindings a list of scancode entries is to add, the last entry first
RECURSIVE BindingsOf(_)
BindingsOf(ses) ==
    IF ses = <<>> THEN <<>>
    ELSE BindingsOf(Tail(ses))
         \o (IF Resolvable(Head(ses).keycode)
             THEN <<[scancode |-> Head(ses).scancode,
                     keycode |-> KeycodeOf(Head(ses).keycode)]>>
             ELSE <<>>)

\* C24: whatever ran before it in the process, add_keymap adds a binding for
\* every scancode entry whose keycode is a known key name or else a
\* well-formed integer literal, skips the entries that are neither, and goes
\* on with the entries after a skipped one
C24_EveryResolvableEntryAdded ==
    [][\A maps \in KeyKeymaps :
          (maps[1].raw = <<>> /\ OptW(maps)) =>
              keytable' = BindingsOf(maps[1].scancode) \o keytable]_vars

\* what a complete scan of the indexed table reports: every entry once, in
\* index order, with the scancode taken from the 4 or 8 bytes of its record
ScanOf(t, kl) ==
    [i \in 1..Cardinality(t) |->
        [scancode |-> IF kl = 4 THEN Low32(KSorted(t)[i].scancode)
                      ELSE KSorted(t)[i].scancode,
         keycode |-> KSorted(t)[i].keycode]]

\* C25: display_table_v2 terminates for every kernel table; it reports the
\* entries at the indices 0, 1, 2, ... once each, the scancode decoded from 4
\* or 8 bytes by the record's length, up to the first index the ioctl fails
\* for, and a record of another length is reported as an error without
\* keeping the scan from finishing
C25_IndexedScanTerminates ==
    /\ pc # "hang"
    /\ (pc = "done" /\ readtable # 0 /\ input_protocol_version >= EV_VERSION_V2) =>
          IF klen \in {4, 8} THEN out = ScanOf(ktable, klen) ELSE out = <<>>

\* C23: add_keys issues one keycode-setting ioctl per binding of the store,
\* in list order (the binding added last first), goes on after an ioctl that
\* fails, returns the number of bindings it attempted, the failed ones
\* included, and leaves the store empty
C23_EveryBindingAttemptedOnce ==
    pc \in {"written", "proto", "attached", "done", "hang"} =>
        /\ Len(ioctls) = Len(stored)
        /\ \A i \in 1..Len(stored) :
              /\ IoctlFor(i).scancode = stored[i].scancode
              /\ IoctlFor(i).keycode = stored[i].keycode
        /\ write_cnt = Len(stored)
        /\ keytable = <<>>

\* the first ioctl of the replay fails, the second succeeds, both are counted
C23_Witness ==
    /\ pc = "written"
    /\ Len(stored) = 2 /\ Len(ioctls) = 2
    /\ ~ioctls[1].ok /\ ioctls[2].ok
    /\ write_cnt = 2
    /\ keytable = <<>>

\* what a device of SpecBpf shows before any write: rc-6 enabled, nec and
\* rc-6 supported, and xbox-dvd where the protocols node lists it
ListsXboxDvd == \E t \in TokSet(N_protocols) : t.name = N_xbox_dvd
BpfDiscovered ==
    [current |-> SYSFS_RC6,
     supported |-> SYSFS_NEC \cup SYSFS_RC6
                   \cup (IF ListsXboxDvd THEN SYSFS_XBOX_DVD ELSE {})]

\* the mask set_proto is handed for the requested mask on such a device, and
\* the text written for a mask
BpfTarget == IF ListsXboxDvd THEN ch_proto ELSE ch_proto \ SYSFS_XBOX_DVD
BpfLines(target) ==
    PlusLines(target)
    \o (IF SYSFS_XBOX_DVD \subseteq target
        THEN <<"+","x","b","o","x","-","d","v","d","\n">> ELSE <<>>)

\* every request pushed by -p or by a keymap carries a name that is not a
\* catalog protocol
RequestsNonCatalog ==
    \A i \in 1..Len(bpf_log) :
        bpf_log[i].origin \in {"opt_p", "keymap"} =>
            parse_sysfs_protocol(bpf_log[i].name, TRUE) = SYSFS_INVALID

Fallbacks == SelectSeq(bpf_log, LAMBDA e : e.origin = "fallback")

\* C26: in the protocol-change step, when xbox-dvd is requested and the
\* device does not support it, the xbox-dvd bit is taken out of the mask
\* given to set_proto and one BPF request named xbox-dvd, without
\* parameters, is registered; otherwise (xbox-dvd supported, or not
\* requested) the requested mask goes to set_proto as it is and no request
\* is registered
C26_XboxDvdFallback ==
    (pc = "proto" /\ (ch_proto # {} \/ bpf_protocol # <<>>)) =>
        IF SYSFS_XBOX_DVD \subseteq ch_proto /\ ~ListsXboxDvd
        THEN /\ rc_dev.current = ch_proto \ SYSFS_XBOX_DVD
             /\ sysfs.writes = <<[path |-> N_protocols,
                                  text |-> PlusLines(ch_proto \ SYSFS_XBOX_DVD)]>>
             /\ Fallbacks = <<[origin |-> "fallback", name |-> N_xbox_dvd,
                               param |-> <<>>]>>
             /\ [name |-> N_xbox_dvd, param |-> <<>>] \in Pending
        ELSE /\ rc_dev.current = ch_proto
             /\ sysfs.writes = <<[path |-> N_protocols,
                                  text |-> BpfLines(ch_proto)]>>
             /\ Fallbacks = <<>>
             /\ \A q \in Pending : q.name # N_xbox_dvd

\* -p xbox-dvd on the device that lists nec and rc-6 only: "none" is
\* written and the xbox-dvd decoder is pending
C26_Witness ==
    /\ pc = "proto"
    /\ ~ListsXboxDvd
    /\ ch_proto = SYSFS_XBOX_DVD
    /\ rc_dev.current = {}
    /\ sysfs.writes = <<[path |-> N_protocols, text |-> <<"n","o","n","e","\n">>]>>
    /\ bpf_protocol = <<[name |-> N_xbox_dvd, param |-> <<>>]>>

\* -p xbox-dvd on the device that lists xbox-dvd: the bit is written, no
\* decoder is pending
C26_WitnessSupported ==
    /\ pc = "proto"
    /\ ListsXboxDvd
    /\ ch_proto = SYSFS_XBOX_DVD
    /\ rc_dev.current = SYSFS_XBOX_DVD
    /\ sysfs.writes = <<[path |-> N_protocols,
                         text |-> <<"n","o","n","e","\n",
                                    "+","x","b","o","x","-","d","v","d","\n">>]>>
    /\ bpf_protocol = <<>>

-----------------------------------------------------------------------------
(* Specification SpecStore: the arguments of one run fill the Keytable      *)
(* Store from keymap files with raw entries, keymap files with scancode     *)
(* entries and -k pairs, in any order                                       *)

Sc0000 == ScOfInt(0)
Sc0001 == ScOfInt(1)

RE(tok) == [keycode |-> tok]

\* keymap files: raw entries alone, after one whose keycode is no keycode,
\* two at once, one whose number overflows; scancode entries 0 and 1; a
\* file with a scancode table and a raw table
StoreKeymaps ==
    {KeyMap(T_none, <<>>, <<RE(K_POWER)>>),
     KeyMap(T_none, <<>>, <<RE(K_BOGUS), RE(K_2)>>),
     KeyMap(T_none, <<>>, <<RE(K_POWER), RE(K_2)>>),
     KeyMap(T_none, <<>>, <<RE(K_HUGE)>>),
     KeyMap(T_rc5, <<SE(Sc0000, K_POWER)>>, <<>>),
     KeyMap(T_rc5, <<SE(Sc0001, K_2)>>, <<>>),
     KeyMap(T_rc5, <<SE(Sc0100, K_POWER)>>, <<>>)
        \o KeyMap(T_none, <<>>, <<RE(K_POWER)>>)}

StorePairs ==
    {<<Pair(ScTok(sc, FALSE), K_POWER)>> : sc \in {Sc0000, Sc0001, Sc0100}}

OptStoreKeymap == \E maps \in StoreKeymaps : OptW(maps)

OptStoreKeys == \E pairs \in StorePairs : OptK(pairs)

StoreInit ==
    /\ CatIdle
    /\ RunStart
    /\ sysfs = Dev(<<FileNode(N_protocols, <<Tok(T_rc5, TRUE)>>)>>, TRUE, FALSE)
    /\ ktable = {} /\ kver = EV_VERSION_V2 /\ klen = 4
    /\ lirc_progs = <<>>

StoreNext ==
    \/ OptStoreKeymap
    \/ OptStoreKeys
    \/ MainDiscover

SpecStore == StoreInit /\ [][StoreNext]_vars

\* the number a raw entry's keycode text resolved to when it was accepted
RawValue(tok) == IF tok.sym # -1 THEN tok.sym ELSE tok.num

\* C14: the synthetic scancodes of the accepted raw entries are 0, 1, 2, ...
\* in the order of acceptance over all merges of the run, the counter is the
\* number of accepted entries (a skipped entry takes no value), and every
\* accepted entry is in the Keytable Store under its synthetic scancode
C14_RawScancodesSequential ==
    /\ raw_scancode = Len(rawtable)
    /\ \A i \in 1..Len(rawtable) : rawtable[i].scancode = Len(rawtable) - i
    /\ \A i \in 1..Len(rawtable) :
          \E j \in 1..Len(keytable) :
              keytable[j] = [scancode |-> ScOfInt(rawtable[i].scancode),
                             keycode |-> RawValue(rawtable[i].keycode)]

\* two merges: a raw entry, then a file whose first raw entry is skipped
\* and whose second gets the value 1
C14_Witness ==
    /\ nargs = 2
    /\ rawtable = <<[scancode |-> 1, keycode |-> K_2],
                    [scancode |-> 0, keycode |-> K_POWER]>>
    /\ keytable = <<[scancode |-> Sc0001, keycode |-> 2],
                    [scancode |-> Sc0000, keycode |-> 116]>>

\* C15: no synthetic scancode of a raw entry is also the scancode of a
\* binding that came from a scancode entry or from -k: the store holds one
\* binding under each synthetic scancode
C15_SyntheticNeverNative ==
    \A i \in 1..Len(rawtable) :
        Cardinality({j \in 1..Len(keytable) :
                        keytable[j].scancode = ScOfInt(rawtable[i].scancode)}) = 1

-----------------------------------------------------------------------------
(* Specification SpecAuto: runs in auto-load mode.  -a reads a rule file,   *)
(* main reads the device's names from its uevent file, applies every rule   *)
(* that matches and programs the device with what the rules' keymaps hold   *)

N_DEV_NAME == <<"D","E","V","_","N","A","M","E">>

\* uevent files: both names; a driver name in capitals and no keytable
\* name; a keytable name only; neither name; a line without '=' and an
\* empty line between two well-formed lines; another driver
AutoUevents ==
    {<<UKey(N_DRV_NAME, <<"e","m">>), UKey(N_NAME, <<"r","c">>)>>,
     <<UKey(N_DRV_NAME, <<"E","M">>)>>,
     <<UKey(N_NAME, <<"R","C">>)>>,
     <<UKey(N_DEV_NAME, <<"x">>)>>,
     <<UKey(N_DRV_NAME, <<"e","m">>), UJunk(<<"j","u","n","k">>),
       UKey(N_NAME, <<"r","c">>)>>,
     <<UKey(N_DRV_NAME, <<"e","m">>), UJunk(<<>>), UKey(N_NAME, <<"r","c">>)>>,
     <<UKey(N_DRV_NAME, <<"s","x">>), UKey(N_NAME, <<"r","c">>)>>}

AutoDevices ==
    {[Dev(<<FileNode(N_protocols, <<Tok(T_rc5, FALSE), Tok(T_nec, TRUE)>>)>>,
          TRUE, TRUE) EXCEPT !.uevent = UText(ul), !.ulines = ul] :
        ul \in AutoUevents}

\* rule files: "em * a" then "* * b"; a comment, a blank line and an
\* indented rule "EM rc a"; "sx * a"; a line without a file name; "* rc b"
\* then "em * a"; a rule whose keymap file does not exist; no file at all
CfgTexts ==
    {<<"e","m"," ","*"," ","a","\n","*"," ","*"," ","b","\n">>,
     <<"#"," ","c","\n","\n"," ","E","M"," ","r","c"," ","a","\n">>,
     <<"s","x"," ","*"," ","a","\n">>,
     <<"e","m"," ","*","\n">>,
     <<"*"," ","r","c"," ","b","\n","e","m"," ","*"," ","a","\n">>,
     <<"*"," ","*"," ","z","z","\n">>,
     NoFile}

OptCfg == \E text \in CfgTexts : OptA(text)

AutoTable == {KE(Sc0100, 7)}

AutoInit ==
    /\ CatIdle
    /\ RunStart
    /\ sysfs \in AutoDevices
    /\ ktable = AutoTable /\ kver = EV_VERSION_V2 /\ klen = 4
    /\ lirc_progs = <<T_manchester>>

AutoNext ==
    \/ OptCfg
    \/ OptC
    \/ OptR
    \/ MainDiscover
    \/ MainOpen
    \/ MainClear
    \/ MainAddKeys
    \/ MainProto
    \/ MainAttach
    \/ MainDisplay

SpecAuto == AutoInit /\ [][AutoNext]_vars

\* main is past the auto-load loop, or has returned from it with "Keep as-is"
PostDiscovery ==
    pc \in {"discovered", "kept", "opened", "cleared", "written", "proto",
            "attached", "done", "hang"}

Lowered(s) == [i \in 1..Len(s) |-> tolower(s[i])]

\* a rule's pattern against the name the device printed under key: the
\* pattern is "*", or the device printed a name that is the pattern up to case
PatternHolds(pattern, key) ==
    \/ pattern = <<"*">>
    \/ \E i \in 1..Len(sysfs.ulines) :
          /\ sysfs.ulines[i].eq
          /\ sysfs.ulines[i].key = key
          /\ Lowered(sysfs.ulines[i].value) = Lowered(pattern)

RuleHolds(i) ==
    /\ PatternHolds(cfg[i].driver, N_DRV_NAME)
    /\ PatternHolds(cfg[i].table, N_NAME)

\* C16: a rule is applied to the device iff its driver pattern is "*" or
\* the device's driver name up to case, and its table pattern is "*" or the
\* device's keytable name up to case; an absent name matches "*" only
C16_RuleMatchesIffPatterns ==
    PostDiscovery =>
        \A i \in 1..Len(cfg) :
            (\E j \in 1..Len(matched) : matched[j] = i) <=> RuleHolds(i)

\* a device with driver EM and no keytable name under the rules (em, *)
\* and (*, *): both apply
C16_Witness ==
    /\ pc = "discovered"
    /\ sysfs.ulines = <<UKey(N_DRV_NAME, <<"E","M">>)>>
    /\ rc_dev.keytable_name = NULLSTR
    /\ Len(cfg) = 2
    /\ cfg[1].driver = <<"e","m">> /\ cfg[1].table = <<"*">>
    /\ cfg[2].driver = <<"*">> /\ cfg[2].table = <<"*">>
    /\ matched = <<1, 2>>

\* the binding each keymap file of the environment holds
BindingOf(fname) ==
    IF fname = <<"a">> THEN [scancode |-> Sc0100, keycode |-> 116]
    ELSE [scancode |-> Sc0200, keycode |-> 2]

\* C17: with rules given, the rules that match are applied in file order and
\* each one's keymap is merged into the one Keytable Store; when none
\* matches main returns 0 right after discovery: the input device is not
\* opened, and there is no clear, no keycode write, no protocol write and
\* no BPF attach or detach
C17_AutoloadMergesEveryMatch ==
    /\ (pc = "discovered" /\ cfg # <<>>) =>
          /\ matched # <<>>
          /\ \A j \in 1..Len(matched) - 1 : matched[j] < matched[j + 1]
          /\ {matched[j] : j \in 1..Len(matched)} =
                {i \in 1..Len(cfg) : RuleHolds(i)}
          /\ keytable = Reverse([j \in 1..Len(matched) |->
                                    BindingOf(cfg[matched[j]].fname)])
    /\ (PostDiscovery /\ cfg # <<>> /\ \A i \in 1..Len(cfg) : ~RuleHolds(i)) =>
          /\ pc = "kept"
          /\ "input" \notin handles
          /\ keytable = <<>> /\ ioctls = <<>> /\ ktable = AutoTable
          /\ sysfs.writes = <<>>
          /\ lirc_progs = <<T_manchester>>

\* both rules of a file match and both keymaps are in the store, the
\* second rule's binding at the head
C17_Witness ==
    /\ pc = "discovered"
    /\ matched = <<1, 2>>
    /\ cfg[1].fname = <<"a">> /\ cfg[2].fname = <<"b">>
    /\ keytable = <<[scancode |-> Sc0200, keycode |-> 2],
                    [scancode |-> Sc0100, keycode |-> 116]>>

\* the name the device printed under key, NULLSTR when it printed none
PrintedName(key) ==
    IF \E i \in 1..Len(sysfs.ulines) :
          sysfs.ulines[i].eq /\ sysfs.ulines[i].key = key
    THEN sysfs.ulines[CHOOSE i \in 1..Len(sysfs.ulines) :
                        sysfs.ulines[i].eq /\ sysfs.ulines[i].key = key].value
    ELSE NULLSTR

\* C19: a line of the uevent file without '=' (an empty line too) is
\* skipped: discovery does not fail for it and the names of the
\* well-formed lines before and after it are returned
C19_LineWithoutEqualsSkipped ==
    /\ pc # "noattr"
    /\ PostDiscovery =>
          /\ rc_dev.drv_name = PrintedName(N_DRV_NAME)
          /\ rc_dev.keytable_name = PrintedName(N_NAME)

\* C20: a handle an operation opened is closed when the operation has
\* returned: the rule file when parse_cfgfile is over, whatever it returned,
\* and the input device when main has returned
C20_HandlesClosedOnReturn ==
    /\ "cfgfile" \notin handles
    /\ pc \in {"done", "exit", "usage", "noattr", "nokeymap", "kept"} =>
          "input" \notin handles

\* the position of main among its steps
StepRank ==
    CASE pc = "opened" -> 1 [] pc = "cleared" -> 2 [] pc = "written" -> 3
      [] pc = "proto" -> 4 [] pc = "attached" -> 5 [] pc \in {"done", "hang"} -> 6
      [] OTHER -> 0

\* the bindings the kernel accepted in this run, a later one for the same
\* scancode replacing an earlier one
Programmed ==
    {KE(ioctls[i].scancode, ioctls[i].keycode) : i \in
        {i \in 1..Len(ioctls) :
            /\ ioctls[i].ok
            /\ \A j \in (i + 1)..Len(ioctls) :
                  ioctls[j].ok => ioctls[j].scancode # ioctls[i].scancode}}

\* one step of main in the fixed order: the table is cleared only in the
\* first step, before any binding is written; bindings are written only in
\* the second; programs are detached and protocols written only in the
\* third; programs are attached only in the fourth; the table is read only
\* in the last, and shows the table as it then is
OrderedStep ==
    /\ StepRank # 0 => StepRank' > StepRank
    /\ ktable' # ktable => pc \in {"opened", "cleared"}
    /\ pc = "opened" =>
          /\ ioctls = <<>> /\ ioctls' = <<>>
          /\ ktable' = IF clear # 0 THEN {} ELSE ktable
    /\ ioctls' # ioctls => pc = "cleared"
    /\ sysfs' # sysfs => pc = "written"
    /\ lirc_progs' # lirc_progs =>
          \/ pc = "written" /\ lirc_progs' = <<>>
          \/ pc = "proto" /\ Len(lirc_progs') > Len(lirc_progs)
                /\ SubSeq(lirc_progs', 1, Len(lirc_progs)) = lirc_progs
    /\ out' # out => pc = "attached" /\ readtable # 0
    /\ (pc = "attached" /\ readtable # 0) => out' = ScanOf(ktable, klen)

\* C27: main's mutating steps happen in the order clear table, program
\* bindings, detach BPF and write protocols, attach BPF, read table; a clear,
\* asked for with --clear or forced by a matching auto-load rule, is over
\* before the first binding is written, so that from the programming step
\* on the table holds exactly the bindings this run wrote, and --read
\* prints that table
C27_FixedStepOrder ==
    /\ [][OrderedStep]_vars
    /\ []((StepRank >= 3 /\ clear # 0) => ktable = Programmed)
    /\ []((pc = "done" /\ clear # 0 /\ readtable # 0) =>
             out = ScanOf(Programmed, klen))

\* a matching rule forced the clear: the old binding of 0x0100 is gone, the
\* keymap's binding is in the table and is what --read prints
C27_Witness ==
    /\ pc = "done" /\ readtable # 0
    /\ matched # <<>> /\ clear # 0
    /\ ioctls # <<>> /\ AllIoctlsOk
    /\ KE(Sc0100, 7) \notin ktable
    /\ ktable = {KE(Sc0100, 116)}
    /\ out = <<KE(Sc0100, 116)>>

=============================================================================
